---- MODULE Spec2Model ----
(***************************************************************************)
(* Alert-evaluation and trade-execution engine of concentric-ticker: the    *)
(* alert checker, the DCA store and scheduler, computeNextExecution and the *)
(* trade dispatcher, each with its own specification over the same state.  *)
(*                                                                         *)
(* Prices are integers in cents (100.00 is 10000) and every price the      *)
(* model uses is a whole number of units, so price*(100 +/- p)/100 is      *)
(* exact; the code's IEEE doubles are idealised to exact rationals.        *)
(* Instants are whole seconds of local time counted from a Sunday 00:00:00.*)
(***************************************************************************)
EXTENDS Integers, Sequences, FiniteSets, TLC

\* alert store and alert evaluation engine first, then the other subsystems
VARIABLES
    alerts,         \* localStorage 'crypto-ticker-alerts': sequence of LocalAlert
    priceData,      \* useCryptoData priceData: symbol -> price or Undefined
    triggeredIds,   \* useRef<Set<string>> of useAlertChecker
    nextAlertId,    \* ids handed out so far (generateId never repeats)
    fx,             \* per alert id: how often each part of the trigger action ran
    inflight,       \* alert ids whose executeAlertTrade promise is pending
    obs,            \* per alert id: the latest evaluation of it (observation)
    \* ---- DCA store and scheduler (dcaStore.ts, useDCAScheduler) ----
    strategies,     \* localStorage 'concentric-dca-strategies': sequence of DCAStrategy
    now,            \* the wall clock
    storedKeys,     \* localStorage 'concentric-trading-keys'
    executedKeys,   \* useRef<Set<string>> of useDCAScheduler
    executingRef,   \* useRef(false) of useDCAScheduler: a check cycle is running
    cycle,          \* the running check cycle, suspended at its await
    nextStrategyId, \* ids handed out so far
    dca,            \* observation of the scheduler: dispatches, results, closures
    \* ---- computeNextExecution applied to one schedule ----
    cne,            \* the schedule, the instant it was computed from, the result
    \* ---- trade dispatcher (executeAlertTrade, executeDCATrade) ----
    calls,          \* per call slot: where the call is, and what it returned
    requests,       \* requests sent to the exchange so far
    orderHistory,   \* localStorage 'concentric-order-history'
    \* ---- fetchJsonWithRetry ----
    rt,             \* one call: its config, attempt, requests, waits, outcome
    \* ---- writers of the stores ----
    lastWrite,      \* the latest update call: its store, its id, was the id missing
    \* ---- order history on its own ----
    added,          \* how many orders addOrderToHistory was given so far
    \* ---- useTrading ----
    tr,             \* clientRef, timeSyncedRef, the clients and the operations
    \* ---- persistent alarm ----
    alarm,          \* loopInterval, audio context, activeAlarm, scheduled intervals
    \* ---- price stream ----
    cd              \* the effect of useCryptoData: socket, intervals, polling timers

alertVars == <<alerts, priceData, triggeredIds, nextAlertId, fx, inflight, obs>>

dcaVars == <<strategies, now, storedKeys, executedKeys, executingRef, cycle,
             nextStrategyId, dca>>

dispatchVars == <<calls, requests, orderHistory>>

vars == <<alertVars, dcaVars, cne, dispatchVars, rt, lastWrite, added, tr, alarm, cd>>

(***************************************************************************)
(* Bounds and input domains                                                *)
(***************************************************************************)
MaxEvals == 3

AlertIds == {1, 2}
Symbols == {"BTCUSDT", "ETHUSDT"}
\* the symbol alerts are created on; the other one only supplies price data
AlertSymbols == {"BTCUSDT"}
Prices == {9900, 10000, 11000}
TickPrices(sym) == IF sym \in AlertSymbols THEN Prices ELSE {10000}
CrossTargets == {10000}
Percents == {0, 10}

\* an optional field that is not set (undefined in the source)
Undefined == -1

\* JavaScript truthiness of an optional number: undefined, 0 (and NaN) are falsy
Truthy(x) == x # Undefined /\ x # 0

Min(a, b) == IF a <= b THEN a ELSE b

(***************************************************************************)
(* Alert store (localStore.ts)                                             *)
(***************************************************************************)
NoAlert ==
    [id |-> 0, symbol |-> "", target_price |-> 0, direction |-> "above",
     alert_type |-> "none", trailing_percent |-> Undefined,
     trailing_high |-> Undefined, status |-> "none", trade_enabled |-> FALSE]

\* createAlert: assigns id and status=active, pushes at the end
createAlert(store, id, a) ==
    Append(store, [a EXCEPT !.id = id, !.status = "active"])

\* an update that stores the patch as a new record when the id is not found
updateAlertUpsert(store, id, patch) ==
    IF \E i \in 1..Len(store) : store[i].id = id
    THEN [i \in 1..Len(store) |->
            IF store[i].id = id
            THEN [f \in DOMAIN store[i] |->
                    IF f \in DOMAIN patch THEN patch[f] ELSE store[i][f]]
            ELSE store[i]]
    ELSE Append(store, [f \in DOMAIN NoAlert |->
                          IF f \in DOMAIN patch THEN patch[f]
                          ELSE IF f = "id" THEN id ELSE NoAlert[f]])

\* an update that merges the patch into every record, whatever its id
updateAlertAny(store, id, patch) ==
    [i \in 1..Len(store) |->
        [f \in DOMAIN store[i] |->
            IF f \in DOMAIN patch THEN patch[f] ELSE store[i][f]]]

\* updateAlert: map over the list, merging the patch into the record with that id
updateAlert(store, id, patch) ==
    [i \in 1..Len(store) |->
        IF store[i].id = id
        THEN [f \in DOMAIN store[i] |->
                IF f \in DOMAIN patch THEN patch[f] ELSE store[i][f]]
        ELSE store[i]]

\* deleteAlert: filter the record with that id out
deleteAlert(store, id) == SelectSeq(store, LAMBDA a : a.id # id)

\* getAlerts().filter(a => a.status === 'active')
ActiveAlerts(store) == SelectSeq(store, LAMBDA a : a.status = "active")

HasAlert(store, id) == \E i \in 1..Len(store) : store[i].id = id

AlertOf(store, id) ==
    IF HasAlert(store, id)
    THEN store[CHOOSE i \in 1..Len(store) : store[i].id = id]
    ELSE NoAlert

(***************************************************************************)
(* Alert evaluation engine (useAlertChecker.ts)                            *)
(***************************************************************************)
NoFx == [persist |-> 0, toast |-> 0, audio |-> 0, trade |-> 0]

\* a trigger that records nothing: neither the guard set nor the persisted status
TriggerAlertUnrecorded(s, alert) ==
    [s EXCEPT !.fx = [s.fx EXCEPT ![alert.id] =
                        [persist |-> @.persist,
                         audio |-> @.audio + 1,
                         toast |-> @.toast + 1,
                         trade |-> @.trade + (IF alert.trade_enabled THEN 1 ELSE 0)]],
              !.inflight = IF alert.trade_enabled
                           THEN s.inflight \cup {alert.id} ELSE s.inflight]

\* triggerAlert, up to its first await: guard set, persisted status, audio cue,
\* notification, and the hand-off to executeAlertTrade when trade is configured
TriggerAlert(s, alert) ==
    IF alert.id \in s.tids THEN s
    ELSE [alerts |-> updateAlert(s.alerts, alert.id, [status |-> "triggered"]),
          tids |-> s.tids \cup {alert.id},
          fx |-> [s.fx EXCEPT ![alert.id] =
                    [persist |-> @.persist + 1,
                     audio |-> @.audio + 1,
                     toast |-> @.toast + 1,
                     trade |-> @.trade + (IF alert.trade_enabled THEN 1 ELSE 0)]],
          inflight |-> IF alert.trade_enabled
                       THEN s.inflight \cup {alert.id} ELSE s.inflight]

\* a strict comparison: the target itself does not trigger
PriceCrossStrict(alert, currentPrice) ==
    IF alert.direction = "above"
    THEN currentPrice > alert.target_price
    ELSE currentPrice < alert.target_price

\* price_cross: comparison of the current value with the target
PriceCrossShouldTrigger(alert, currentPrice) ==
    IF alert.direction = "above"
    THEN currentPrice >= alert.target_price
    ELSE currentPrice <= alert.target_price

\* ((currentPrice - ref) / ref) * 100 >= k, in IEEE terms for ref = 0
\* (a positive price over 0 is +Infinity)
ChangePercentGE(currentPrice, ref, k) ==
    IF ref = 0 THEN currentPrice > 0
    ELSE IF ref > 0 THEN (currentPrice - ref) * 100 >= k * ref
    ELSE (currentPrice - ref) * 100 <= k * ref

\* ((currentPrice - ref) / ref) * 100 <= k
ChangePercentLE(currentPrice, ref, k) ==
    IF ref = 0 THEN currentPrice < 0
    ELSE IF ref > 0 THEN (currentPrice - ref) * 100 <= k * ref
    ELSE (currentPrice - ref) * 100 >= k * ref

\* percentage_change: signed move from the reference price against the threshold
PercentShouldTrigger(alert, currentPrice) ==
    IF alert.direction = "above"
    THEN ChangePercentGE(currentPrice, alert.target_price, alert.trailing_percent)
    ELSE ChangePercentLE(currentPrice, alert.target_price, 0 - alert.trailing_percent)

\* a trigger price on the wrong side of the watermark
NewTriggerAboveWrongSide(currentPrice, trailing_percent) ==
    (currentPrice * (100 + trailing_percent)) \div 100

\* newTrigger of a rising trail: currentPrice * (1 - trailing_percent / 100)
NewTriggerAbove(currentPrice, trailing_percent) ==
    (currentPrice * (100 - trailing_percent)) \div 100

\* newTrigger of a falling trail: currentPrice * (1 + trailing_percent / 100)
NewTriggerBelow(currentPrice, trailing_percent) ==
    (currentPrice * (100 + trailing_percent)) \div 100

\* trailing_stop: ratchet the watermark or trigger
TrailingStop(s, alert, currentPrice) ==
    LET highWatermark == IF Truthy(alert.trailing_high)
                         THEN alert.trailing_high ELSE currentPrice
    IN  IF alert.direction = "above"
        THEN IF currentPrice > highWatermark
             THEN [s EXCEPT !.alerts = updateAlert(s.alerts, alert.id,
                     [trailing_high |-> currentPrice,
                      target_price |->
                        NewTriggerAbove(currentPrice, alert.trailing_percent)])]
             ELSE IF currentPrice <= alert.target_price
                  THEN TriggerAlert(s, alert) ELSE s
        ELSE LET lowWatermark == highWatermark
             IN  IF currentPrice < lowWatermark
                 THEN [s EXCEPT !.alerts = updateAlert(s.alerts, alert.id,
                         [trailing_high |-> currentPrice,
                          target_price |->
                            NewTriggerBelow(currentPrice, alert.trailing_percent)])]
                 ELSE IF currentPrice >= alert.target_price
                      THEN TriggerAlert(s, alert) ELSE s

\* one iteration of the for-loop over the active alerts
EvalAlert(s, alert, prices) ==
    LET currentPrice == prices[alert.symbol]
    IN  IF currentPrice = Undefined THEN s
        ELSE IF alert.id \in s.tids THEN s
        ELSE IF alert.alert_type = "price_cross"
             THEN IF PriceCrossShouldTrigger(alert, currentPrice)
                  THEN TriggerAlert(s, alert) ELSE s
        ELSE IF alert.alert_type = "percentage_change"
                /\ Truthy(alert.trailing_percent)
             THEN IF PercentShouldTrigger(alert, currentPrice)
                  THEN TriggerAlert(s, alert) ELSE s
        ELSE IF alert.alert_type = "trailing_stop"
                /\ Truthy(alert.trailing_percent)
             THEN TrailingStop(s, alert, currentPrice)
        ELSE s

RECURSIVE PassFrom(_, _, _, _)
PassFrom(s, list, i, prices) ==
    IF i > Len(list) THEN s
    ELSE PassFrom(EvalAlert(s, list[i], prices), list, i + 1, prices)

\* the evaluation effect: one pass over the snapshot of active alerts
EvalPass(s, prices) ==
    IF \A sym \in Symbols : prices[sym] = Undefined THEN s
    ELSE LET activeAlerts == ActiveAlerts(s.alerts)
         IN  IF Len(activeAlerts) = 0 THEN s
             ELSE PassFrom(s, activeAlerts, 1, prices)

EngineState == [alerts |-> alerts, tids |-> triggeredIds, fx |-> fx,
                inflight |-> inflight]

\* an evaluation of alert id happens in a pass at these prices: the alert is
\* stored, active, and its symbol has a price
Evaluated(id, prices) ==
    /\ HasAlert(alerts, id)
    /\ AlertOf(alerts, id).status = "active"
    /\ prices[AlertOf(alerts, id).symbol] # Undefined

\* the condition a price_cross alert states, on the current value alone
CrossHolds(a, price) ==
    \/ a.direction = "above" /\ price >= a.target_price
    \/ a.direction = "below" /\ price <= a.target_price

\* observation of the passes, per alert: n evaluations so far; hit: some
\* evaluation of a price_cross alert saw its condition hold; again: a pass ran
\* after the trigger at a price that still satisfies the condition; low: the
\* lowest price seen since the alert was armed; moved: a pass changed the
\* stored watermark
Observe(prices) ==
    [id \in AlertIds |->
        LET a == AlertOf(alerts, id)
            p == prices[a.symbol]
        IN  IF Evaluated(id, prices)
            THEN [obs[id] EXCEPT
                    !.n = @ + 1,
                    !.hit = @ \/ (a.alert_type = "price_cross" /\ CrossHolds(a, p)),
                    !.low = Min(@, p)]
            ELSE IF /\ HasAlert(alerts, id) /\ id \in triggeredIds
                    /\ p # Undefined
                    /\ a.alert_type = "price_cross" /\ CrossHolds(a, p)
            THEN [obs[id] EXCEPT !.again = TRUE]
            ELSE obs[id]]

\* priceData changed: the effect re-runs with the new map
RunEffect(prices) ==
    /\ \A id \in AlertIds : Evaluated(id, prices) => obs[id].n < MaxEvals
    /\ priceData' = prices
    /\ LET s == EvalPass(EngineState, prices)
       IN  /\ alerts' = s.alerts
           /\ triggeredIds' = s.tids
           /\ fx' = s.fx
           /\ inflight' = s.inflight
    /\ obs' = [id \in AlertIds |->
                [Observe(prices)[id] EXCEPT
                    !.moved = @ \/ (/\ HasAlert(alerts, id)
                                    /\ AlertOf(alerts', id).trailing_high
                                         # AlertOf(alerts, id).trailing_high)]]
    /\ UNCHANGED nextAlertId

\* a ticker message of the stream for one symbol
Tick(sym, price) == RunEffect([priceData EXCEPT ![sym] = price])

\* the REST fetch replaces the whole map
FetchPrices(m) == RunEffect(m)

\* a settlement that takes the trigger back
TradeSettlesRollsBack(id) ==
    /\ id \in inflight
    /\ inflight' = inflight \ {id}
    /\ alerts' = updateAlert(alerts, id, [status |-> "active"])
    /\ triggeredIds' = triggeredIds \ {id}
    /\ UNCHANGED <<priceData, nextAlertId, fx, obs>>

\* the promise of executeAlertTrade settles: 'Trade Executed' / 'Trade Failed' toast
TradeSettles(id) ==
    /\ id \in inflight
    /\ inflight' = inflight \ {id}
    /\ UNCHANGED <<alerts, priceData, triggeredIds, nextAlertId, fx, obs>>

\* ---- user actions on the store ----
NewAlert(a, cp) ==
    /\ nextAlertId + 1 \in AlertIds
    /\ nextAlertId' = nextAlertId + 1
    /\ alerts' = createAlert(alerts, nextAlertId + 1, a)
    /\ obs' = [obs EXCEPT ![nextAlertId + 1].low = cp]
    /\ UNCHANGED <<priceData, triggeredIds, fx, inflight>>

\* EnhancedAlertManager.addAlert: price_cross or percentage_change
addAlert(sym, alertType, isAbove, targetPrice, percentageThreshold) ==
    LET currentPrice == priceData[sym]
    IN  NewAlert([NoAlert EXCEPT
                    !.symbol = sym,
                    !.target_price = IF alertType = "price_cross" THEN targetPrice
                                     ELSE IF Truthy(currentPrice) THEN currentPrice
                                     ELSE 0,
                    !.direction = IF isAbove THEN "above" ELSE "below",
                    !.alert_type = alertType,
                    !.trailing_percent = IF alertType = "percentage_change"
                                         THEN percentageThreshold ELSE Undefined],
                 currentPrice)

\* TechnicalIndicators.createIndicatorAlert / confirmTradeAlert
createIndicatorAlert(sym, indicatorValue, tradeMode) ==
    LET currentPrice == priceData[sym]
        isAbove == currentPrice # Undefined /\ currentPrice < indicatorValue
    IN  NewAlert([NoAlert EXCEPT
                    !.symbol = sym,
                    !.target_price = indicatorValue,
                    !.direction = IF isAbove THEN "above" ELSE "below",
                    !.alert_type = "price_cross",
                    !.trade_enabled = tradeMode],
                 currentPrice)

\* TrailingAlertManager.addTrailingAlert (desktop)
addTrailingAlert(sym, trailDirection, percentage, autoTrigger, manualTriggerPrice) ==
    LET currentPrice == priceData[sym]
        triggerPrice ==
            IF autoTrigger
            THEN IF trailDirection = "up"
                 THEN (currentPrice * (100 - percentage)) \div 100
                 ELSE (currentPrice * (100 + percentage)) \div 100
            ELSE manualTriggerPrice
    IN  /\ Truthy(currentPrice)
        /\ NewAlert([NoAlert EXCEPT
                       !.symbol = sym,
                       !.target_price = triggerPrice,
                       !.direction = IF trailDirection = "up" THEN "above" ELSE "below",
                       !.alert_type = "trailing_stop",
                       !.trailing_percent = percentage,
                       !.trailing_high = IF trailDirection = "up"
                                         THEN currentPrice ELSE Undefined],
                    currentPrice)

\* removeAlert: deleteAlert(id)
removeAlert(id) ==
    /\ HasAlert(alerts, id)
    /\ alerts' = deleteAlert(alerts, id)
    /\ UNCHANGED <<priceData, triggeredIds, nextAlertId, fx, inflight, obs>>

AlertInit ==
    /\ alerts = <<>>
    /\ priceData = [sym \in Symbols |-> Undefined]
    /\ triggeredIds = {}
    /\ nextAlertId = 0
    /\ fx = [id \in AlertIds |-> NoFx]
    /\ inflight = {}
    /\ obs = [id \in AlertIds |->
                [n |-> 0, hit |-> FALSE, again |-> FALSE, low |-> Undefined,
                 moved |-> FALSE]]

AlertNext ==
    \/ \E sym \in Symbols : \E price \in TickPrices(sym) :
          Tick(sym, price) /\ UNCHANGED <<dcaVars, cne, dispatchVars, rt, lastWrite, added, tr, alarm, cd>>
    \/ \E m \in [Symbols -> Prices] :
          /\ \A sym \in Symbols : m[sym] \in TickPrices(sym)
          /\ FetchPrices(m) /\ UNCHANGED <<dcaVars, cne, dispatchVars, rt, lastWrite, added, tr, alarm, cd>>
    \/ \E id \in AlertIds : TradeSettles(id) /\ UNCHANGED <<dcaVars, cne, dispatchVars, rt, lastWrite, added, tr, alarm, cd>>
    \/ \E sym \in AlertSymbols, t \in {"price_cross", "percentage_change"},
          isAbove \in BOOLEAN, target \in CrossTargets, pct \in Percents :
          addAlert(sym, t, isAbove, target, pct) /\ UNCHANGED <<dcaVars, cne, dispatchVars, rt, lastWrite, added, tr, alarm, cd>>
    \/ \E sym \in AlertSymbols, v \in CrossTargets, tradeMode \in BOOLEAN :
          createIndicatorAlert(sym, v, tradeMode) /\ UNCHANGED <<dcaVars, cne, dispatchVars, rt, lastWrite, added, tr, alarm, cd>>
    \/ \E sym \in AlertSymbols, d \in {"up", "down"}, pct \in Percents,
          auto \in BOOLEAN, manual \in CrossTargets :
          addTrailingAlert(sym, d, pct, auto, manual) /\ UNCHANGED <<dcaVars, cne, dispatchVars, rt, lastWrite, added, tr, alarm, cd>>
    \/ \E id \in AlertIds : removeAlert(id) /\ UNCHANGED <<dcaVars, cne, dispatchVars, rt, lastWrite, added, tr, alarm, cd>>

(***************************************************************************)
(* Stored API keys (keyStore)                                              *)
(***************************************************************************)
\* no item under the storage key; also the null that getStoredKeys returns
NoKeys == [present |-> FALSE, apiKey |-> "", apiSecret |-> ""]

\* the keys the wizard saves after a successful connection test
WizardKeys == [present |-> TRUE, apiKey |-> "k", apiSecret |-> "s"]

\* keys for every caller, stored or not
getStoredKeysAlways(raw) == WizardKeys

\* getStoredKeys: null unless the item exists and holds both fields
getStoredKeys(raw) ==
    IF ~raw.present THEN NoKeys
    ELSE IF raw.apiKey # "" /\ raw.apiSecret # "" THEN raw
    ELSE NoKeys

(***************************************************************************)
(* DCA store (dcaStore.ts)                                                 *)
(* An ISO timestamp is identified with the instant it denotes.             *)
(***************************************************************************)
StrategyIds == {1, 2}

\* instants the clock visits: 09:30:10, 10:00:10, 10:00:40, 10:55:10 and
\* 11:00:40 of the Sunday
Instants == {34210, 36010, 36040, 39310, 39640}

\* (quoteAmount, totalBudget) pairs typed into the form
FormAmounts == {<<50, 100>>, <<60, 100>>}

\* scheduledTime.split(':').map(Number)
ParseHHMM(scheduledTime) ==
    CASE scheduledTime = "00:00" -> <<0, 0>>
      [] scheduledTime = "10:00" -> <<10, 0>>
      [] scheduledTime = "16:30" -> <<16, 30>>
      [] scheduledTime = "23:59" -> <<23, 59>>

\* Date accessors on an instant of local time
getMinutes(t) == (t % 3600) \div 60
getSeconds(t) == t % 60
getDay(t) == (t \div 86400) % 7
\* setMinutes(m, 0, 0) and setHours(h, m, 0, 0)
setMinutes(t, m) == t - (t % 3600) + m * 60
setHours(t, h, m) == t - (t % 86400) + h * 3600 + m * 60

\* computeNextExecution(frequency, scheduledTime, dayOfWeek, from)
computeNextExecution(frequency, scheduledTime, dayOfWeek, from) ==
    IF frequency = "hourly"
    THEN IF scheduledTime = "end"
         THEN LET next == setMinutes(from, 55)
              IN  IF next <= from THEN next + 3600 ELSE next
         ELSE LET next == setMinutes(from, 0) + 3600
              IN  IF /\ scheduledTime = "start"
                     /\ getMinutes(from) = 0 /\ getSeconds(from) < 30
                  THEN next - 3600 ELSE next
    ELSE IF frequency = "daily"
    THEN LET hm == ParseHHMM(scheduledTime)
             next == setHours(from, hm[1], hm[2])
         IN  IF next <= from THEN next + 86400 ELSE next
    ELSE IF frequency = "weekly" /\ dayOfWeek # Undefined
    THEN LET hm == ParseHHMM(scheduledTime)
             next == setHours(from, hm[1], hm[2])
             currentDay == getDay(next)
             d0 == dayOfWeek - currentDay
             d1 == IF d0 < 0 THEN d0 + 7 ELSE d0
             daysUntil == IF d1 = 0 /\ next <= from THEN 7 ELSE d1
         IN  next + daysUntil * 86400
    ELSE from + 3600

\* createDCAStrategy: id, zeroed totals and the first nextExecuteAt
createDCAStrategy(store, id, data, clock) ==
    Append(store,
           [id |-> id,
            quoteAmount |-> data.quoteAmount,
            totalBudget |-> data.totalBudget,
            totalSpent |-> 0,
            executionCount |-> 0,
            frequency |-> data.frequency,
            scheduledTime |-> data.scheduledTime,
            dayOfWeek |-> data.dayOfWeek,
            enabled |-> data.enabled,
            nextExecuteAt |-> computeNextExecution(data.frequency,
                                 data.scheduledTime, data.dayOfWeek, clock),
            lastExecutedAt |-> Undefined])

\* updateDCAStrategy: merge the updates into the record with that id
updateDCAStrategy(store, id, updates) ==
    [i \in 1..Len(store) |->
        IF store[i].id = id
        THEN [f \in DOMAIN store[i] |->
                IF f \in DOMAIN updates THEN updates[f] ELSE store[i][f]]
        ELSE store[i]]

deleteDCAStrategy(store, id) == SelectSeq(store, LAMBDA s : s.id # id)

HasStrategy(store, id) == \E i \in 1..Len(store) : store[i].id = id

(***************************************************************************)
(* DCA scheduler (useDCAScheduler)                                         *)
(***************************************************************************)
NoCycle == [list |-> <<>>, i |-> 0, now |-> 0]

\* one more for key k in a table of counts
Bump(f, k) ==
    IF k \in DOMAIN f THEN [f EXCEPT ![k] = @ + 1] ELSE f @@ (k :> 1)

\* key k was seen once more; the table tells one sighting from several
Seen(f, k) ==
    IF k \in DOMAIN f THEN [f EXCEPT ![k] = "again"] ELSE f @@ (k :> "once")

\* the guard key was never recorded
KeyNeverExecuted(keys, key) == FALSE

\* executedKeys.current.has(key)
KeyExecuted(keys, key) == key \in keys

\* executeStrategy up to its await: record the key, call executeDCATrade
BeginExecute(s, key) ==
    [s EXCEPT !.executedKeys = @ \cup {key},
              !.dca.dispatches = Bump(@, key)]

\* executeStrategy that leaves the strategy as it is when the trade failed
FinishExecuteOnSuccess(s, strategy, success, clock) ==
    IF ~success THEN s
    ELSE LET newTotalSpent == strategy.totalSpent + strategy.quoteAmount
             budgetExhausted == newTotalSpent >= strategy.totalBudget
             updates == [totalSpent |-> newTotalSpent,
                         executionCount |-> strategy.executionCount + 1,
                         lastExecutedAt |-> clock,
                         nextExecuteAt |-> computeNextExecution(
                             strategy.frequency, strategy.scheduledTime,
                             strategy.dayOfWeek, clock)]
             all == IF budgetExhausted
                    THEN updates @@ [enabled |-> FALSE] ELSE updates
         IN  [s EXCEPT
                !.strategies = updateDCAStrategy(@, strategy.id, all),
                !.dca.succ[strategy.id] = @ + 1,
                !.dca.closed[strategy.id] =
                    @ \/ (budgetExhausted
                          /\ HasStrategy(s.strategies, strategy.id))]

\* executeStrategy after its await: totals, next instant, closure, persisted
FinishExecute(s, strategy, success, clock) ==
    LET newTotalSpent == strategy.totalSpent + strategy.quoteAmount
        budgetExhausted == newTotalSpent >= strategy.totalBudget
        updates == [totalSpent |-> newTotalSpent,
                    executionCount |-> strategy.executionCount + 1,
                    lastExecutedAt |-> clock,
                    nextExecuteAt |-> computeNextExecution(strategy.frequency,
                        strategy.scheduledTime, strategy.dayOfWeek, clock)]
        all == IF budgetExhausted
               THEN updates @@ [enabled |-> FALSE] ELSE updates
        stored == HasStrategy(s.strategies, strategy.id)
    IN  [s EXCEPT
            !.strategies = updateDCAStrategy(@, strategy.id, all),
            !.dca.succ[strategy.id] = IF success THEN @ + 1 ELSE @,
            !.dca.closed[strategy.id] = @ \/ (budgetExhausted /\ stored)]

\* the for-loop of a check cycle from index i, up to its next await on a
\* request or to its end; without stored keys executeDCATrade fails at once
RECURSIVE CheckLoop(_, _, _, _, _, _)
CheckLoop(s, list, i, checkNow, clock, raw) ==
    IF i > Len(list)
    THEN [s EXCEPT !.executingRef = FALSE, !.cycle = NoCycle,
                   !.dca.running = @ - 1]
    ELSE LET strategy == list[i]
             key == <<strategy.id, strategy.nextExecuteAt>>
         IN  IF ~strategy.enabled
             THEN CheckLoop(s, list, i + 1, checkNow, clock, raw)
             ELSE IF ~(checkNow >= strategy.nextExecuteAt)
             THEN CheckLoop(s, list, i + 1, checkNow, clock, raw)
             ELSE LET s0 == [s EXCEPT !.dca.due = Seen(@, key)]
                  IN  IF KeyExecuted(s.executedKeys, key)
                      THEN CheckLoop(s0, list, i + 1, checkNow, clock, raw)
                      ELSE IF getStoredKeys(raw) = NoKeys
                      THEN CheckLoop(FinishExecute(BeginExecute(s0, key),
                                                   strategy, FALSE, clock),
                                     list, i + 1, checkNow, clock, raw)
                      ELSE [BeginExecute(s0, key) EXCEPT
                              !.cycle = [list |-> list, i |-> i,
                                         now |-> checkNow]]

SchedulerState ==
    [strategies |-> strategies, executedKeys |-> executedKeys,
     executingRef |-> executingRef, cycle |-> cycle, dca |-> dca]

SetScheduler(s) ==
    /\ strategies' = s.strategies
    /\ executedKeys' = s.executedKeys
    /\ executingRef' = s.executingRef
    /\ cycle' = s.cycle
    /\ dca' = s.dca

\* a check that starts a cycle whether or not one is running
checkUnlatched ==
    /\ SetScheduler(CheckLoop([SchedulerState EXCEPT !.executingRef = TRUE,
                                                     !.dca.running = @ + 1],
                              strategies, 1, now, now, storedKeys))
    /\ UNCHANGED <<now, storedKeys, nextStrategyId>>

\* the interval callback (and the call on mount): it returns at once while a
\* cycle is running, otherwise it takes the latch and a check cycle starts
check ==
    /\ IF executingRef
       THEN UNCHANGED <<strategies, executedKeys, executingRef, cycle, dca>>
       ELSE SetScheduler(CheckLoop([SchedulerState EXCEPT
                                       !.executingRef = TRUE,
                                       !.dca.running = @ + 1],
                                   strategies, 1, now, now, storedKeys))
    /\ UNCHANGED <<now, storedKeys, nextStrategyId>>

\* the storage refuses the write of updateDCAStrategy after the awaited trade
\* call: executeStrategy rejects, the rest of the cycle is abandoned and the
\* finally block of check releases the latch
ExecuteThrows ==
    /\ cycle # NoCycle
    /\ executingRef' = FALSE
    /\ cycle' = NoCycle
    /\ dca' = [dca EXCEPT !.running = @ - 1]
    /\ UNCHANGED <<strategies, now, storedKeys, executedKeys, nextStrategyId>>

\* the request of the awaited executeDCATrade settles, the cycle resumes
TradeReturns(success) ==
    /\ cycle # NoCycle
    /\ SetScheduler(CheckLoop(FinishExecute(SchedulerState, cycle.list[cycle.i],
                                            success, now),
                              cycle.list, cycle.i + 1, cycle.now, now,
                              storedKeys))
    /\ UNCHANGED <<now, storedKeys, nextStrategyId>>

\* time passes
Advance(t) ==
    /\ t > now
    /\ now' = t
    /\ UNCHANGED <<strategies, storedKeys, executedKeys, executingRef, cycle,
                   nextStrategyId, dca>>

\* DCAForm.handleCreate
handleCreate(amt, budget, frequency, hourlyMode, scheduledTime, dayOfWeek) ==
    /\ amt > 0
    /\ budget > 0
    /\ ~(amt > budget)
    /\ nextStrategyId + 1 \in StrategyIds
    /\ nextStrategyId' = nextStrategyId + 1
    /\ strategies' = createDCAStrategy(strategies, nextStrategyId + 1,
          [quoteAmount |-> amt, totalBudget |-> budget,
           frequency |-> frequency,
           scheduledTime |-> IF frequency = "hourly"
                             THEN hourlyMode ELSE scheduledTime,
           dayOfWeek |-> IF frequency = "weekly" THEN dayOfWeek ELSE Undefined,
           enabled |-> TRUE],
          now)
    /\ UNCHANGED <<now, storedKeys, executedKeys, executingRef, cycle, dca>>

\* DCAList.handleToggle
handleToggle(id, enabled) ==
    /\ HasStrategy(strategies, id)
    /\ strategies' = updateDCAStrategy(strategies, id, [enabled |-> enabled])
    /\ UNCHANGED <<now, storedKeys, executedKeys, executingRef, cycle,
                   nextStrategyId, dca>>

\* DCAList.handleDelete
handleDelete(id) ==
    /\ HasStrategy(strategies, id)
    /\ strategies' = deleteDCAStrategy(strategies, id)
    /\ UNCHANGED <<now, storedKeys, executedKeys, executingRef, cycle,
                   nextStrategyId, dca>>

\* ApiKeyWizard: saveKeys after a successful test
saveKeys(keys) ==
    /\ storedKeys' = keys
    /\ UNCHANGED <<strategies, now, executedKeys, executingRef, cycle,
                   nextStrategyId, dca>>

clearKeys ==
    /\ storedKeys' = NoKeys
    /\ UNCHANGED <<strategies, now, executedKeys, executingRef, cycle,
                   nextStrategyId, dca>>

DCAInit ==
    /\ strategies = <<>>
    /\ now = 34210
    /\ storedKeys = NoKeys
    /\ executedKeys = {}
    /\ executingRef = FALSE
    /\ cycle = NoCycle
    /\ nextStrategyId = 0
    /\ dca = [dispatches |-> [k \in {} |-> 0],
              due |-> [k \in {} |-> 0],
              succ |-> [id \in StrategyIds |-> 0],
              closed |-> [id \in StrategyIds |-> FALSE],
              running |-> 0]

DCANext ==
    \/ check /\ UNCHANGED <<alertVars, cne, dispatchVars, rt, lastWrite, added, tr, alarm, cd>>
    \/ \E success \in BOOLEAN : TradeReturns(success) /\ UNCHANGED <<alertVars, cne, dispatchVars, rt, lastWrite, added, tr, alarm, cd>>
    \/ \E t \in Instants : Advance(t) /\ UNCHANGED <<alertVars, cne, dispatchVars, rt, lastWrite, added, tr, alarm, cd>>
    \/ \E ab \in FormAmounts, frequency \in {"hourly", "daily", "weekly"},
          hourlyMode \in {"start", "end"} :
          /\ handleCreate(ab[1], ab[2], frequency, hourlyMode, "10:00", 0)
          /\ UNCHANGED <<alertVars, cne, dispatchVars, rt, lastWrite, added, tr, alarm, cd>>
    \/ \E id \in StrategyIds, enabled \in BOOLEAN :
          handleToggle(id, enabled) /\ UNCHANGED <<alertVars, cne, dispatchVars, rt, lastWrite, added, tr, alarm, cd>>
    \/ \E id \in StrategyIds : handleDelete(id) /\ UNCHANGED <<alertVars, cne, dispatchVars, rt, lastWrite, added, tr, alarm, cd>>
    \/ saveKeys(WizardKeys) /\ UNCHANGED <<alertVars, cne, dispatchVars, rt, lastWrite, added, tr, alarm, cd>>
    \/ clearKeys /\ UNCHANGED <<alertVars, cne, dispatchVars, rt, lastWrite, added, tr, alarm, cd>>

(***************************************************************************)
(* computeNextExecution applied to the inputs of a schedule                *)
(***************************************************************************)
MaxApply == 2

\* the instants computeNextExecution is called at: Sunday 00:00:00, 00:00:10,
\* 10:00:00, 10:00:10, 10:00:29, 10:00:30, 10:54:59, 10:55:00, 10:59:59,
\* 23:59:59; Wednesday 10:00:00; Saturday 23:59:59
CallInstants == {0, 10, 36000, 36010, 36029, 36030, 39299, 39300, 39599,
                 86399, 295200, 604799}

ScheduledTimes == {"00:00", "10:00", "16:30", "23:59"}
DaysOfWeek == {0, 1, 2, 3, 4, 5, 6}

\* the schedules the form can store
Schedules ==
    {[frequency |-> "hourly", scheduledTime |-> m, dayOfWeek |-> Undefined] :
        m \in {"start", "end"}}
    \cup {[frequency |-> "daily", scheduledTime |-> t, dayOfWeek |-> Undefined] :
        t \in ScheduledTimes}
    \cup {[frequency |-> "weekly", scheduledTime |-> t, dayOfWeek |-> d] :
        t \in ScheduledTimes, d \in DaysOfWeek}

NoCall == [frequency |-> "hourly", scheduledTime |-> "start",
           dayOfWeek |-> Undefined, from |-> 0, result |-> Undefined,
           prev |-> Undefined, n |-> 0]

\* createDCAStrategy: the first nextExecuteAt, computed from the creation time
ComputeAtCreation ==
    /\ cne.result = Undefined
    /\ cne' = [cne EXCEPT
                 !.result = computeNextExecution(cne.frequency,
                               cne.scheduledTime, cne.dayOfWeek, cne.from)]

\* executeStrategy: the strategy ran delay seconds after it became due (or
\* after the last computation, whichever is later) and nextExecuteAt is
\* computed again from that instant
ComputeAfterExecution(delay) ==
    /\ cne.result # Undefined
    /\ cne.n < MaxApply
    /\ LET at == (IF cne.result > cne.from THEN cne.result ELSE cne.from) + delay
       IN  cne' = [cne EXCEPT
                     !.from = at,
                     !.prev = cne.result,
                     !.n = @ + 1,
                     !.result = computeNextExecution(cne.frequency,
                                   cne.scheduledTime, cne.dayOfWeek, at)]

ScheduleInit ==
    \E sch \in Schedules, from \in CallInstants :
        cne = [NoCall EXCEPT !.frequency = sch.frequency,
                             !.scheduledTime = sch.scheduledTime,
                             !.dayOfWeek = sch.dayOfWeek,
                             !.from = from]

ScheduleNext ==
    \/ ComputeAtCreation /\ UNCHANGED <<alertVars, dcaVars, dispatchVars, rt, lastWrite, added, tr, alarm, cd>>
    \/ \E delay \in {0, 10, 40} :
          ComputeAfterExecution(delay)
          /\ UNCHANGED <<alertVars, dcaVars, dispatchVars, rt, lastWrite, added, tr, alarm, cd>>

(***************************************************************************)
(* Order history (orderStore) and trade dispatcher (executeAlertTrade,     *)
(* executeDCATrade)                                                        *)
(***************************************************************************)
MaxCalls == 2
MAX_ORDERS == 100

CallIds == {1, 2}

\* an order response of the exchange; none in a result without one
NoOrder == [orderId |-> <<0, 0>>]

\* the history keeps every order it is given, never evicting
addOrderUnbounded(history, response, alertId) ==
    <<[orderId |-> response.orderId, alertId |-> alertId]>> \o history

\* the history ignores the order
addOrderNowhere(history, response, alertId) == history

\* addOrderToHistory: unshift, then cut to MAX_ORDERS entries
addOrderToHistory(history, response, alertId) ==
    LET h == <<[orderId |-> response.orderId, alertId |-> alertId]>> \o history
    IN  IF Len(h) > MAX_ORDERS THEN SubSeq(h, 1, MAX_ORDERS) ELSE h

NoResult == [kind |-> "none", success |-> FALSE, error |-> "", order |-> NoOrder]
\* the null returned for an alert without a trade
NullResult == [kind |-> "null", success |-> FALSE, error |-> "", order |-> NoOrder]
NoKeysFailure ==
    [kind |-> "result", success |-> FALSE, error |-> "No API keys configured",
     order |-> NoOrder]
Failure(msg) ==
    [kind |-> "result", success |-> FALSE, error |-> msg, order |-> NoOrder]
Success(order) ==
    [kind |-> "result", success |-> TRUE, error |-> "", order |-> order]

\* the back-reference stored with an order: alert.id, or `dca-${strategy.id}`
AlertRef(id) == <<"", id>>
DcaRef(id) == <<"dca-", id>>

\* timeOffset of the client of a call: 0 as created, a number once syncTime
\* has read serverTime, NaN when the answer had no serverTime
IdleCall == [pc |-> "idle", fn |-> "", id |-> 0, trade_enabled |-> FALSE,
             result |-> NoResult, n |-> 0, timeOffset |-> "0"]

\* the dispatcher up to its first await: the result it returns at once, or
\* the request of syncTime
Dispatch(c, fn, id, trade_enabled) ==
    /\ calls[c].pc = "idle"
    /\ calls[c].n < MaxCalls
    /\ IF fn = "executeAlertTrade" /\ ~trade_enabled
       THEN /\ calls' = [calls EXCEPT ![c] =
                  [pc |-> "idle", fn |-> fn, id |-> id,
                   trade_enabled |-> trade_enabled,
                   result |-> NullResult, n |-> @.n + 1,
                   timeOffset |-> "0"]]
            /\ UNCHANGED requests
       ELSE IF getStoredKeys(storedKeys) = NoKeys
       THEN /\ calls' = [calls EXCEPT ![c] =
                  [pc |-> "idle", fn |-> fn, id |-> id,
                   trade_enabled |-> trade_enabled,
                   result |-> NoKeysFailure, n |-> @.n + 1,
                   timeOffset |-> "0"]]
            /\ UNCHANGED requests
       ELSE /\ calls' = [calls EXCEPT ![c] =
                  [pc |-> "syncTime", fn |-> fn, id |-> id,
                   trade_enabled |-> trade_enabled,
                   result |-> NoResult, n |-> @.n + 1,
                   timeOffset |-> "0"]]
            /\ requests' = requests + 1
    /\ UNCHANGED orderHistory

\* executeAlertTrade(alert)
executeAlertTrade(c, id, trade_enabled) ==
    Dispatch(c, "executeAlertTrade", id, trade_enabled)

\* executeDCATrade(strategy)
executeDCATrade(c, id) == Dispatch(c, "executeDCATrade", id, FALSE)

\* what the request of syncTime settles with: a JSON body with serverTime, a
\* JSON body without it (the error body of a refused request: res.ok is not
\* looked at), or a rejection (no connection, or a body that is not JSON)
SyncOutcomes == {"serverTime", "errorBody", "rejected"}

\* client.syncTime() settles; when it resolves the order request is signed
\* with Date.now() + timeOffset and sent
syncTime(c, outcome) ==
    /\ calls[c].pc = "syncTime"
    /\ IF outcome = "rejected"
       THEN /\ calls' = [calls EXCEPT ![c].pc = "idle",
                                      ![c].result = Failure("fetch failed")]
            /\ UNCHANGED requests
       ELSE /\ calls' = [calls EXCEPT
                            ![c].pc = "order",
                            ![c].timeOffset = IF outcome = "serverTime"
                                              THEN "number" ELSE "NaN"]
            /\ requests' = requests + 1
    /\ UNCHANGED orderHistory

\* the messages of the errors signedRequest throws: its own for a response
\* that is not ok, fetch's for a request that got no response
OrderErrors == {"Binance POST", "Failed to fetch"}

\* what the order request settles with
OrderOutcomes == {"order"} \cup OrderErrors

\* a dispatcher that sends the order request again when it failed
OrderSettlesRetrying(c, outcome, ref) ==
    /\ calls[c].pc = "order"
    /\ IF outcome = "order"
       THEN LET order == [orderId |-> <<c, calls[c].n>>]
            IN  /\ orderHistory' = addOrderToHistory(orderHistory, order, ref)
                /\ calls' = [calls EXCEPT ![c].pc = "idle",
                                          ![c].result = Success(order)]
                /\ UNCHANGED requests
       ELSE /\ requests' = requests + 1
            /\ UNCHANGED <<calls, orderHistory>>

\* the order request of call c settles: with the order of the exchange, stored
\* under the back-reference ref and returned, or with an error, whose message
\* is returned; the client of the call ends with the call
OrderSettles(c, outcome, ref) ==
    /\ calls[c].pc = "order"
    /\ IF outcome = "order"
       THEN LET order == [orderId |-> <<c, calls[c].n>>]
            IN  /\ orderHistory' = addOrderToHistory(orderHistory, order, ref)
                /\ calls' = [calls EXCEPT ![c].pc = "idle",
                                          ![c].timeOffset = "0",
                                          ![c].result = Success(order)]
       ELSE /\ calls' = [calls EXCEPT ![c].pc = "idle",
                                      ![c].timeOffset = "0",
                                      ![c].result = Failure(outcome)]
            /\ UNCHANGED orderHistory
    /\ UNCHANGED requests

\* client.placeLimitOrder(...) settles
placeLimitOrder(c, outcome) ==
    /\ calls[c].fn = "executeAlertTrade"
    /\ OrderSettles(c, outcome, AlertRef(calls[c].id))

\* client.placeMarketOrder(...) settles
placeMarketOrder(c, outcome) ==
    /\ calls[c].fn = "executeDCATrade"
    /\ OrderSettles(c, outcome, DcaRef(calls[c].id))

DispatchInit ==
    /\ calls = [c \in CallIds |-> IdleCall]
    /\ requests = 0
    /\ orderHistory = <<>>

DispatchNext ==
    \/ \E c \in CallIds, id \in AlertIds, trade_enabled \in BOOLEAN :
          /\ executeAlertTrade(c, id, trade_enabled)
          /\ UNCHANGED <<alertVars, dcaVars, cne, rt, lastWrite, added, tr, alarm, cd>>
    \/ \E c \in CallIds, id \in StrategyIds :
          executeDCATrade(c, id) /\ UNCHANGED <<alertVars, dcaVars, cne, rt, lastWrite, added, tr, alarm, cd>>
    \/ \E c \in CallIds, outcome \in SyncOutcomes :
          syncTime(c, outcome) /\ UNCHANGED <<alertVars, dcaVars, cne, rt, lastWrite, added, tr, alarm, cd>>
    \/ \E c \in CallIds, outcome \in OrderOutcomes :
          placeLimitOrder(c, outcome) /\ UNCHANGED <<alertVars, dcaVars, cne, rt, lastWrite, added, tr, alarm, cd>>
    \/ \E c \in CallIds, outcome \in OrderOutcomes :
          placeMarketOrder(c, outcome) /\ UNCHANGED <<alertVars, dcaVars, cne, rt, lastWrite, added, tr, alarm, cd>>
    \/ saveKeys(WizardKeys) /\ UNCHANGED <<alertVars, dispatchVars, cne, rt, lastWrite, added, tr, alarm, cd>>
    \/ clearKeys /\ UNCHANGED <<alertVars, dispatchVars, cne, rt, lastWrite, added, tr, alarm, cd>>

(***************************************************************************)
(* fetchJsonWithRetry (Binance data layer)                                 *)
(***************************************************************************)
MaxAttemptsBound == 3

\* what one fetch settles with: a response (status, body, Retry-After header),
\* the abort of the timeout (AbortError), a connection failure (TypeError)
Responses ==
    {[name |-> "response", status |-> st, json |-> TRUE, retryAfter |-> ""] :
        st \in {200, 400, 401, 403, 404, 500, 503}}
    \cup {[name |-> "response", status |-> 200, json |-> FALSE, retryAfter |-> ""]}
    \cup {[name |-> "response", status |-> 429, json |-> TRUE, retryAfter |-> h] :
        h \in {"", "5", "soon"}}
    \cup {[name |-> n, status |-> Undefined, json |-> FALSE, retryAfter |-> ""] :
        n \in {"AbortError", "TypeError"}}

NoResponse == [name |-> "", status |-> Undefined, json |-> FALSE, retryAfter |-> ""]

\* Math.random() * 2 - 1, in hundredths
RandomFactors == {-100, 0, 100}

\* parseInt(header, 10) where it is a number; isNaN otherwise
IsNumeric(h) == h \in {"5"}
ParseInt(h) == CASE h = "5" -> 5

NoError == [code |-> "", status |-> Undefined, attempt |-> 0,
            retryAfterSec |-> Undefined, cause |-> ""]

ApiError(code, attempt, status, retryAfterSec) ==
    [code |-> code, status |-> status, attempt |-> attempt,
     retryAfterSec |-> retryAfterSec, cause |-> ""]

\* a jitter of twice the configured percentage
addJitterWide(delay, jitterPercent, randomFactor) ==
    (delay * 10000 + delay * 2 * jitterPercent * randomFactor + 5000) \div 10000

\* Math.round(delay + delay * (jitterPercent / 100) * randomFactor)
addJitter(delay, jitterPercent, randomFactor) ==
    (delay * 10000 + delay * jitterPercent * randomFactor + 5000) \div 10000

\* a power of two
RECURSIVE Pow2(_)
Pow2(n) == IF n = 0 THEN 1 ELSE 2 * Pow2(n - 1)

\* a classification that retries nothing
isRetryableNever(name, status) == FALSE

\* a classification that retries every failure
isRetryableAlways(name, status) == TRUE

\* isRetryableError(error, status): name is error.name, status the second
\* argument (Undefined when the caller passes none); the status the error
\* itself carries is not looked at
isRetryableError(name, status) ==
    \/ name \in {"AbortError", "TypeError"}
    \/ status # Undefined
         /\ (status = 429 \/ (status >= 500 /\ status < 600))

\* the body of one loop iteration once its fetch has settled with resp:
\* "return", "throw" (with error) or "retry" (with lastError)
AttemptOutcome(resp, attempt) ==
    IF resp.name = "response"
    THEN IF resp.status >= 200 /\ resp.status < 300
         THEN IF resp.json
              THEN [do |-> "return", error |-> NoError]
              ELSE \* response.json() rejects with a SyntaxError, caught below
                   LET e == ApiError("NETWORK_ERROR", attempt, Undefined, Undefined)
                   IN  IF isRetryableError("SyntaxError", Undefined)
                       THEN [do |-> "retry", error |-> e]
                       ELSE [do |-> "throw", error |-> e]
         ELSE IF resp.status = 429
         THEN LET retryAfterSec ==
                      IF resp.retryAfter # "" /\ IsNumeric(resp.retryAfter)
                      THEN ParseInt(resp.retryAfter) ELSE Undefined
                  e == ApiError("RATE_LIMITED", attempt, resp.status, retryAfterSec)
              IN  \* thrown inside the try, caught by the catch of the loop
                  IF isRetryableError("ApiError", Undefined)
                  THEN [do |-> "retry", error |-> e]
                  ELSE [do |-> "throw", error |-> e]
         ELSE LET e == ApiError("HTTP_ERROR", attempt, resp.status, Undefined)
              IN  IF ~isRetryableError("ApiError", resp.status)
                  THEN \* thrown inside the try, caught by the catch of the loop
                       IF isRetryableError("ApiError", Undefined)
                       THEN [do |-> "retry", error |-> e]
                       ELSE [do |-> "throw", error |-> e]
                  ELSE [do |-> "retry", error |-> e]
    ELSE LET e == IF resp.name = "AbortError"
                  THEN ApiError("ABORT_TIMEOUT", attempt, Undefined, Undefined)
                  ELSE ApiError("NETWORK_ERROR", attempt, Undefined, Undefined)
         IN  IF isRetryableError(resp.name, Undefined)
             THEN [do |-> "retry", error |-> e]
             ELSE [do |-> "throw", error |-> e]

\* the summary error thrown after the loop
RetryExhausted(maxAttempts, lastError) ==
    [code |-> "RETRY_EXHAUSTED", status |-> Undefined, attempt |-> maxAttempts,
     retryAfterSec |-> Undefined,
     cause |-> IF lastError = NoError THEN "Unknown error" ELSE lastError.code]

IdleFetch(maxAttempts, baseDelay, jitterPercent) ==
    [maxAttempts |-> maxAttempts, baseDelay |-> baseDelay,
     jitterPercent |-> jitterPercent, pc |-> "idle", attempt |-> 0,
     requests |-> 0, waits |-> 0, delay |-> 0, unjittered |-> 0,
     resp |-> NoResponse,
     lastError |-> NoError, thrown |-> NoError]

\* fetchJsonWithRetry is called: the loop starts with attempt 1, or not at all
fetchJsonWithRetry ==
    /\ rt.pc = "idle"
    /\ rt' = IF 1 <= rt.maxAttempts
             THEN [rt EXCEPT !.pc = "fetch", !.attempt = 1, !.requests = @ + 1]
             ELSE [rt EXCEPT !.pc = "thrown", !.attempt = 1,
                             !.thrown = RetryExhausted(rt.maxAttempts, NoError)]

\* the fetch of the current attempt settles with resp
FetchSettles(resp, randomFactor) ==
    /\ rt.pc = "fetch"
    /\ LET o == AttemptOutcome(resp, rt.attempt)
       IN  rt' =
             IF o.do = "return"
             THEN [rt EXCEPT !.pc = "returned", !.resp = resp]
             ELSE IF o.do = "throw"
             THEN [rt EXCEPT !.pc = "thrown", !.resp = resp,
                             !.lastError = o.error, !.thrown = o.error]
             ELSE IF rt.attempt < rt.maxAttempts
             THEN [rt EXCEPT !.pc = "wait", !.resp = resp,
                             !.lastError = o.error,
                             !.unjittered = rt.baseDelay * Pow2(rt.attempt - 1),
                             !.delay = addJitter(rt.baseDelay * Pow2(rt.attempt - 1),
                                                 rt.jitterPercent, randomFactor)]
             ELSE [rt EXCEPT !.pc = "thrown", !.resp = resp,
                             !.lastError = o.error,
                             !.attempt = @ + 1,
                             !.thrown = RetryExhausted(rt.maxAttempts, o.error)]

\* the backoff timer fires: the next attempt sends its request
BackoffElapses ==
    /\ rt.pc = "wait"
    /\ rt' = [rt EXCEPT !.pc = "fetch", !.attempt = @ + 1,
                        !.requests = @ + 1, !.waits = @ + 1]

RetryIdle == rt = IdleFetch(3, 300, 30)

RetryInit ==
    \E maxAttempts \in 0..MaxAttemptsBound :
        rt = IdleFetch(maxAttempts, 300, 30)

RetryNext ==
    \/ fetchJsonWithRetry /\ UNCHANGED <<alertVars, dcaVars, cne, dispatchVars, lastWrite, added, tr, alarm, cd>>
    \/ \E resp \in Responses, randomFactor \in RandomFactors :
          /\ FetchSettles(resp, randomFactor)
          /\ UNCHANGED <<alertVars, dcaVars, cne, dispatchVars, lastWrite, added, tr, alarm, cd>>
    \/ BackoffElapses /\ UNCHANGED <<alertVars, dcaVars, cne, dispatchVars, lastWrite, added, tr, alarm, cd>>

\* amounts and budgets of strategies whose budget one or two executions reach
BudgetAmounts == {<<100, 100>>, <<50, 100>>}

\* the scheduler with hourly strategies that reach their budget within the
\* instants of the model, and the user's switch
BudgetNext ==
    \/ check /\ UNCHANGED <<alertVars, cne, dispatchVars, rt, lastWrite, added, tr, alarm, cd>>
    \/ \E success \in BOOLEAN : TradeReturns(success) /\ UNCHANGED <<alertVars, cne, dispatchVars, rt, lastWrite, added, tr, alarm, cd>>
    \/ \E t \in Instants : Advance(t) /\ UNCHANGED <<alertVars, cne, dispatchVars, rt, lastWrite, added, tr, alarm, cd>>
    \/ \E ab \in BudgetAmounts :
          /\ handleCreate(ab[1], ab[2], "hourly", "end", "10:00", 0)
          /\ UNCHANGED <<alertVars, cne, dispatchVars, rt, lastWrite, added, tr, alarm, cd>>
    \/ \E id \in StrategyIds, enabled \in BOOLEAN :
          handleToggle(id, enabled) /\ UNCHANGED <<alertVars, cne, dispatchVars, rt, lastWrite, added, tr, alarm, cd>>
    \/ saveKeys(WizardKeys) /\ UNCHANGED <<alertVars, cne, dispatchVars, rt, lastWrite, added, tr, alarm, cd>>

\* the scheduler with a storage that can refuse a write
LatchNext ==
    \/ DCANext
    \/ ExecuteThrows /\ UNCHANGED <<alertVars, cne, dispatchVars, rt, lastWrite, added, tr, alarm, cd>>

(***************************************************************************)
(* The two stores under writers that hold the id of a record read earlier  *)
(***************************************************************************)
AlertPatches ==
    {[status |-> "triggered"],
     [target_price |-> 9900, trailing_high |-> 11000]}

StrategyUpdates ==
    {[enabled |-> FALSE],
     [totalSpent |-> 50, executionCount |-> 1, nextExecuteAt |-> 36000]}

NoWrite == [store |-> "", id |-> 0, missing |-> FALSE, flip |-> FALSE]

\* updateAlert(id, updates) called by a writer for an id it read earlier
updateAlertCall(id, patch) ==
    /\ id <= nextAlertId
    /\ alerts' = updateAlert(alerts, id, patch)
    /\ lastWrite' = [store |-> "alerts", id |-> id,
                     missing |-> ~HasAlert(alerts, id),
                     flip |-> ~lastWrite.flip]
    /\ UNCHANGED <<priceData, triggeredIds, nextAlertId, fx, inflight, obs>>

\* updateDCAStrategy(id, updates) called by a writer for an id it read earlier
updateDCAStrategyCall(id, updates) ==
    /\ id <= nextStrategyId
    /\ strategies' = updateDCAStrategy(strategies, id, updates)
    /\ lastWrite' = [store |-> "strategies", id |-> id,
                     missing |-> ~HasStrategy(strategies, id),
                     flip |-> ~lastWrite.flip]
    /\ UNCHANGED <<now, storedKeys, executedKeys, executingRef, cycle,
                   nextStrategyId, dca>>

StoreNext ==
    \/ \E sym \in AlertSymbols, isAbove \in BOOLEAN, target \in CrossTargets :
          /\ addAlert(sym, "price_cross", isAbove, target, 0)
          /\ UNCHANGED <<dcaVars, cne, dispatchVars, rt, lastWrite, added, tr, alarm, cd>>
    \/ \E id \in AlertIds :
          removeAlert(id) /\ UNCHANGED <<dcaVars, cne, dispatchVars, rt, lastWrite, added, tr, alarm, cd>>
    \/ \E id \in AlertIds, patch \in AlertPatches :
          /\ updateAlertCall(id, patch)
          /\ UNCHANGED <<dcaVars, cne, dispatchVars, rt, added, tr, alarm, cd>>
    \/ \E ab \in FormAmounts, hourlyMode \in {"start", "end"} :
          /\ handleCreate(ab[1], ab[2], "hourly", hourlyMode, "10:00", 0)
          /\ UNCHANGED <<alertVars, cne, dispatchVars, rt, lastWrite, added, tr, alarm, cd>>
    \/ \E id \in StrategyIds :
          handleDelete(id) /\ UNCHANGED <<alertVars, cne, dispatchVars, rt, lastWrite, added, tr, alarm, cd>>
    \/ \E id \in StrategyIds, updates \in StrategyUpdates :
          /\ updateDCAStrategyCall(id, updates)
          /\ UNCHANGED <<alertVars, cne, dispatchVars, rt, added, tr, alarm, cd>>

(***************************************************************************)
(* The order history on its own: a long run of recorded orders             *)
(***************************************************************************)
MaxAdds == 102
VariedAdds == 2
OrderRefs == {AlertRef(1), DcaRef(1)}

\* addOrderToHistory(order, accountType, ref) with the order the exchange
\* returned; the exchange numbers its orders in the order it accepts them
AddOrder(ref) ==
    /\ added < MaxAdds
    /\ IF Len(orderHistory) < VariedAdds THEN TRUE
       ELSE ref = orderHistory[1].alertId
    /\ orderHistory' =
          addOrderToHistory(orderHistory, [orderId |-> <<0, added + 1>>], ref)
    /\ added' = added + 1
    /\ UNCHANGED <<calls, requests>>

HistoryNext ==
    \E ref \in OrderRefs :
        AddOrder(ref) /\ UNCHANGED <<alertVars, dcaVars, cne, rt, lastWrite, tr, alarm, cd>>

(***************************************************************************)
(* useTrading: one client and one time-sync flag for the hook              *)
(***************************************************************************)
MaxClients == 2
OpIds == {1, 2}
NoClient == 0

IdleOp == [pc |-> "idle", client |-> NoClient]

\* the hook as mounted: clientRef null, timeSyncedRef false; `made` counts the
\* clients created, `synced` holds those whose syncTime has resolved
TradingIdle ==
    [clientRef |-> NoClient, timeSyncedRef |-> FALSE, made |-> 0,
     synced |-> {}, ops |-> [o \in OpIds |-> IdleOp]]

\* getClient returns a client: the one of clientRef, or a new one when keys
\* are stored
CanGetClient(t, raw) ==
    t.clientRef # NoClient \/ (getStoredKeys(raw) # NoKeys /\ t.made < MaxClients)

\* getClient(): the client of clientRef, or a new one made from the stored keys
getClient(t, raw) ==
    IF t.clientRef # NoClient THEN t
    ELSE [t EXCEPT !.clientRef = t.made + 1, !.made = t.made + 1]

\* ensureTimeSync(client) up to its await, or past it to the signed request
\* when timeSyncedRef is already set
ensureTimeSync(t, o) ==
    IF t.timeSyncedRef
    THEN [t EXCEPT !.ops[o] = [pc |-> "request", client |-> t.clientRef]]
    ELSE [t EXCEPT !.ops[o] = [pc |-> "syncTime", client |-> t.clientRef]]

\* placeLimitOrder, getOpenOrders, cancelOrder, getAccountBalances, ...:
\* getClient, ensureTimeSync, then the signed request of the client
SignedOperation(o) ==
    /\ tr.ops[o].pc = "idle"
    /\ CanGetClient(tr, storedKeys)
    /\ tr' = ensureTimeSync(getClient(tr, storedKeys), o)

\* testConnection: getClient, syncTime, then getAccountBalances
testConnection(o) ==
    /\ tr.ops[o].pc = "idle"
    /\ CanGetClient(tr, storedKeys)
    /\ LET t == getClient(tr, storedKeys)
       IN  tr' = [t EXCEPT !.ops[o] = [pc |-> "syncTime", client |-> t.clientRef]]

\* the awaited client.syncTime() of operation o settles: timeSyncedRef is set
\* and the signed request is sent, or the operation throws
SyncTimeSettles(o, ok) ==
    /\ tr.ops[o].pc = "syncTime"
    /\ IF ok
       THEN tr' = [tr EXCEPT !.synced = @ \cup {tr.ops[o].client},
                             !.timeSyncedRef = TRUE,
                             !.ops[o].pc = "request"]
       ELSE tr' = [tr EXCEPT !.ops[o] = IdleOp]

\* the signed request of operation o settles
SignedRequestSettles(o) ==
    /\ tr.ops[o].pc = "request"
    /\ tr' = [tr EXCEPT !.ops[o] = IdleOp]

\* refreshConnection: the client and the flag are dropped
refreshConnection ==
    /\ tr' = [tr EXCEPT !.clientRef = NoClient, !.timeSyncedRef = FALSE]

TradingNext ==
    \/ \E o \in OpIds :
          SignedOperation(o) /\ UNCHANGED <<alertVars, dcaVars, cne, dispatchVars, rt, lastWrite, added, alarm, cd>>
    \/ \E o \in OpIds :
          testConnection(o) /\ UNCHANGED <<alertVars, dcaVars, cne, dispatchVars, rt, lastWrite, added, alarm, cd>>
    \/ \E o \in OpIds, ok \in BOOLEAN :
          SyncTimeSettles(o, ok) /\ UNCHANGED <<alertVars, dcaVars, cne, dispatchVars, rt, lastWrite, added, alarm, cd>>
    \/ \E o \in OpIds :
          SignedRequestSettles(o) /\ UNCHANGED <<alertVars, dcaVars, cne, dispatchVars, rt, lastWrite, added, alarm, cd>>
    \/ refreshConnection /\ UNCHANGED <<alertVars, dcaVars, cne, dispatchVars, rt, lastWrite, added, alarm, cd>>
    \/ saveKeys(WizardKeys) /\ UNCHANGED <<alertVars, dispatchVars, cne, rt, lastWrite, added, tr, alarm, cd>>

(***************************************************************************)
(* The persistent alarm of useAlertChecker                                 *)
(***************************************************************************)
NoTimer == 0

\* the hook as mounted: no interval, no audio context, no active alarm;
\* `timers` are the intervals that are scheduled, `made` counts the intervals
\* created, `lastPlay` tells who played the pattern last, `silenced` that
\* silence was the last thing that happened to the alarm
AlarmIdle ==
    [loopInterval |-> NoTimer, timers |-> {}, made |-> 0, activeAlarm |-> 0,
     audioCtx |-> "null", lastPlay |-> "none", silenced |-> FALSE]

\* playAlarmPattern: the audio context is created or reused, the beeps play
playAlarmPattern(al, by) ==
    [al EXCEPT !.audioCtx = "running", !.lastPlay = by]

\* a start that schedules its interval without cancelling the running one
startPersistentAlarmKeeping(al, alertId) ==
    playAlarmPattern(
        [al EXCEPT !.timers = @ \cup {al.made + 1},
                   !.loopInterval = al.made + 1,
                   !.made = al.made + 1,
                   !.activeAlarm = alertId,
                   !.silenced = FALSE],
        "trigger")

\* startPersistentAlarm: clearInterval of the running one, setActiveAlarm,
\* play at once, setInterval
startPersistentAlarm(al, alertId) ==
    playAlarmPattern(
        [al EXCEPT !.timers = (@ \ {al.loopInterval}) \cup {al.made + 1},
                   !.loopInterval = al.made + 1,
                   !.made = al.made + 1,
                   !.activeAlarm = alertId,
                   !.silenced = FALSE],
        "trigger")

\* the sound of triggerAlert: persistent or one-shot, by the preferences
TriggerSound(al, alertId, persistent) ==
    IF persistent THEN startPersistentAlarm(al, alertId)
    ELSE [playAlarmPattern(al, "trigger") EXCEPT !.silenced = FALSE]

\* the sounds of one pass: one for each alert of the list, from index i, that
\* the pass triggered
RECURSIVE PassSounds(_, _, _, _, _)
PassSounds(al, list, i, triggered, persistent) ==
    IF i > Len(list) THEN al
    ELSE PassSounds(IF list[i].id \in triggered
                    THEN TriggerSound(al, list[i].id, persistent) ELSE al,
                    list, i + 1, triggered, persistent)

\* a ticker message: the pass, and the sound of every alert it triggers
AlarmTick(sym, price, persistent) ==
    /\ Tick(sym, price)
    /\ alarm' = PassSounds(alarm, alerts, 1, triggeredIds' \ triggeredIds,
                           persistent)

\* the callback of a scheduled interval runs
IntervalFires(t) ==
    /\ t \in alarm.timers
    /\ alarm' = playAlarmPattern(alarm, "interval")
    /\ UNCHANGED alertVars

\* silence: clearInterval, close the audio context, setActiveAlarm(null)
silence ==
    /\ alarm' = [alarm EXCEPT
                    !.timers = IF alarm.loopInterval # NoTimer
                               THEN @ \ {alarm.loopInterval} ELSE @,
                    !.loopInterval = NoTimer,
                    !.audioCtx = "null",
                    !.activeAlarm = 0,
                    !.silenced = TRUE]
    /\ UNCHANGED alertVars

AlarmNext ==
    \/ \E sym \in Symbols, persistent \in BOOLEAN : \E price \in TickPrices(sym) :
          /\ AlarmTick(sym, price, persistent)
          /\ UNCHANGED <<dcaVars, cne, dispatchVars, rt, lastWrite, added, tr, cd>>
    \/ \E sym \in AlertSymbols, isAbove \in BOOLEAN, target \in CrossTargets :
          /\ addAlert(sym, "price_cross", isAbove, target, 0)
          /\ UNCHANGED <<dcaVars, cne, dispatchVars, rt, lastWrite, added, tr, alarm, cd>>
    \/ \E t \in 1..Cardinality(AlertIds) :
          IntervalFires(t) /\ UNCHANGED <<dcaVars, cne, dispatchVars, rt, lastWrite, added, tr, cd>>
    \/ silence /\ UNCHANGED <<dcaVars, cne, dispatchVars, rt, lastWrite, added, tr, cd>>

(***************************************************************************)
(* The price stream of useCryptoData and its polling fallback              *)
(***************************************************************************)
MaxEffectRuns == 3
MaxPolls == 2

\* the hook before its effect has run: `gen` counts the runs of the effect,
\* `live` tells that the last run has not been cleaned up, `pollTimers` holds
\* the run of every polling interval that is scheduled
CryptoIdle ==
    [symbols |-> {}, retryToken |-> 0, mounted |-> FALSE, live |-> FALSE,
     gen |-> 0, ws |-> "none", candleInterval |-> FALSE,
     historicalInterval |-> FALSE, pollTimers |-> {}, polls |-> 0]

\* the cleanup the effect returns: ws.close() and clearInterval of the candle
\* and historical intervals; a run with no symbols returns no cleanup
EffectCleanup(c) ==
    IF c.live /\ c.symbols # {}
    THEN [c EXCEPT !.ws = "closed", !.candleInterval = FALSE,
                   !.historicalInterval = FALSE, !.live = FALSE]
    ELSE [c EXCEPT !.live = FALSE]

\* the body of the effect: nothing for no symbols, else a socket and the two
\* intervals
EffectSetup(c, syms, token) ==
    LET d == [c EXCEPT !.symbols = syms, !.retryToken = token,
                       !.mounted = TRUE, !.live = TRUE, !.gen = c.gen + 1]
    IN  IF syms = {} THEN [d EXCEPT !.ws = "none"]
        ELSE [d EXCEPT !.ws = "open", !.candleInterval = TRUE,
                       !.historicalInterval = TRUE]

\* React runs the effect: on mount, and when symbols or the retry token
\* change, after the cleanup of the previous run
EffectRuns(syms, token) ==
    /\ cd.gen < MaxEffectRuns
    /\ ~cd.mounted \/ syms # cd.symbols \/ token # cd.retryToken
    /\ cd' = EffectSetup(EffectCleanup(cd), syms, token)

\* ws.onerror: setInterval(fetchPriceData, 1000); the function the handler
\* returns goes to the event dispatcher, which drops it
StreamError ==
    /\ cd.ws = "open"
    /\ cd' = [cd EXCEPT !.ws = "error", !.pollTimers = @ \cup {cd.gen}]

\* a polling interval fires: fetchPriceData
PollFires(t) ==
    /\ t \in cd.pollTimers
    /\ cd.polls < MaxPolls
    /\ cd' = [cd EXCEPT !.polls = @ + 1]

\* the component unmounts: the cleanup of the last run
Unmount ==
    /\ cd.mounted
    /\ cd' = [EffectCleanup(cd) EXCEPT !.mounted = FALSE]

CryptoNext ==
    \/ \E syms \in SUBSET Symbols, token \in {cd.retryToken, cd.retryToken + 1} :
          /\ EffectRuns(syms, token)
          /\ UNCHANGED <<alertVars, dcaVars, cne, dispatchVars, rt, lastWrite, added, tr, alarm>>
    \/ StreamError /\ UNCHANGED <<alertVars, dcaVars, cne, dispatchVars, rt, lastWrite, added, tr, alarm>>
    \/ \E t \in 1..MaxEffectRuns :
          PollFires(t) /\ UNCHANGED <<alertVars, dcaVars, cne, dispatchVars, rt, lastWrite, added, tr, alarm>>
    \/ Unmount /\ UNCHANGED <<alertVars, dcaVars, cne, dispatchVars, rt, lastWrite, added, tr, alarm>>

(***************************************************************************)
(* Specifications: one per subsystem, over the same state                  *)
(***************************************************************************)
\* the parts of the state a specification leaves alone
Idle ==
    /\ cne = NoCall /\ RetryIdle /\ lastWrite = NoWrite /\ added = 0
    /\ tr = TradingIdle /\ alarm = AlarmIdle /\ cd = CryptoIdle

Init == AlertInit /\ DCAInit /\ DispatchInit /\ Idle

SpecAlert == Init /\ [][AlertNext]_vars

SpecDCA == Init /\ [][DCANext]_vars

InitSchedule ==
    AlertInit /\ DCAInit /\ DispatchInit /\ ScheduleInit /\ RetryIdle
    /\ lastWrite = NoWrite /\ added = 0 /\ tr = TradingIdle
    /\ alarm = AlarmIdle /\ cd = CryptoIdle

SpecSchedule == InitSchedule /\ [][ScheduleNext]_vars

SpecDispatch == Init /\ [][DispatchNext]_vars

InitRetry ==
    AlertInit /\ DCAInit /\ DispatchInit /\ cne = NoCall /\ RetryInit
    /\ lastWrite = NoWrite /\ added = 0 /\ tr = TradingIdle
    /\ alarm = AlarmIdle /\ cd = CryptoIdle

SpecRetry == InitRetry /\ [][RetryNext]_vars

SpecStore == Init /\ [][StoreNext]_vars

SpecHistory == Init /\ [][HistoryNext]_vars

SpecLatch == Init /\ [][LatchNext]_vars

SpecBudget == Init /\ [][BudgetNext]_vars

SpecTrading == Init /\ [][TradingNext]_vars

SpecAlarm == Init /\ [][AlarmNext]_vars

SpecCrypto == Init /\ [][CryptoNext]_vars

\* the interval timer keeps calling check, every awaited trade call settles
\* and the clock moves on
CheckFires ==
    check /\ UNCHANGED <<alertVars, cne, dispatchVars, rt, lastWrite, added, tr, alarm, cd>>

TradeSettled ==
    \E success \in BOOLEAN :
        /\ TradeReturns(success)
        /\ UNCHANGED <<alertVars, cne, dispatchVars, rt, lastWrite, added, tr, alarm, cd>>

TimePasses ==
    \E t \in Instants :
        Advance(t) /\ UNCHANGED <<alertVars, cne, dispatchVars, rt, lastWrite, added, tr, alarm, cd>>

SpecDCALive ==
    /\ Init
    /\ [][DCANext]_vars
    /\ WF_vars(CheckFires)
    /\ WF_vars(TradeSettled)
    /\ WF_vars(TimePasses)

(***************************************************************************)
(* Claims on the alert evaluation engine                                   *)
(***************************************************************************)
\* alert id is evaluated by the step: stored, active, its symbol priced
EvalStep(id) == obs'[id].n = obs[id].n + 1

\* C1: within one session, for any sequence of price updates and every alert,
\* each part of the trigger action (persisting status=triggered, notification,
\* audio cue, hand-off to the trade dispatcher) is performed at most once.
C1_TriggerAtMostOnce ==
    \A id \in AlertIds :
        /\ fx[id].persist <= 1
        /\ fx[id].toast <= 1
        /\ fx[id].audio <= 1
        /\ fx[id].trade <= 1

\* a triggered alert with a trade, and a later pass at a price that still
\* satisfies its condition
C1_Witness ==
    \E id \in AlertIds :
        /\ obs[id].again
        /\ fx[id] = [persist |-> 1, toast |-> 1, audio |-> 1, trade |-> 1]

TrailingAboveRatchet(nonZero) ==
    \A id \in AlertIds :
        LET a == AlertOf(alerts, id)
            b == AlertOf(alerts', id)
            price == priceData'[a.symbol]
        IN  (/\ EvalStep(id)
             /\ a.alert_type = "trailing_stop" /\ a.direction = "above"
             /\ a.trailing_percent # Undefined /\ a.trailing_high # Undefined
             /\ (nonZero => a.trailing_percent # 0))
            => IF price > a.trailing_high
               THEN /\ b.trailing_high = price
                    /\ b.target_price * 100 = price * (100 - a.trailing_percent)
                    /\ b.status = "active"
                    /\ fx'[id] = fx[id]
               ELSE (b.status = "triggered") <=> (price <= a.target_price)

C5_TrailingBelowRatchet ==
    [][\A id \in AlertIds :
        LET a == AlertOf(alerts, id)
            b == AlertOf(alerts', id)
            price == priceData'[a.symbol]
        IN  (/\ EvalStep(id)
             /\ a.alert_type = "trailing_stop" /\ a.direction = "below"
             /\ Truthy(a.trailing_percent))
            => IF price < obs[id].low
               THEN /\ b.trailing_high = price
                    /\ b.target_price * 100 = price * (100 + a.trailing_percent)
               ELSE (b.status = "triggered") <=> (price >= a.target_price)
      ]_vars

\* C6: an evaluation of an active percentage_change alert with non-zero
\* reference R and threshold p >= 0 at price P triggers if and only if
\* (P-R)/R*100 >= p (above) or <= -p (below).
C6_PercentChangeIff ==
    [][\A id \in AlertIds :
        LET a == AlertOf(alerts, id)
            b == AlertOf(alerts', id)
            P == priceData'[a.symbol]
            R == a.target_price
            pc == a.trailing_percent
        IN  (/\ EvalStep(id)
             /\ a.alert_type = "percentage_change"
             /\ R > 0 /\ pc # Undefined /\ pc >= 0)
            => ((b.status = "triggered")
                  <=> IF a.direction = "above"
                      THEN (P - R) * 100 >= pc * R
                      ELSE (P - R) * 100 <= (0 - pc) * R)
      ]_vars

(***************************************************************************)
(* Claims on the DCA scheduler                                             *)
(***************************************************************************)
NoStrategy ==
    [id |-> 0, quoteAmount |-> 1, totalBudget |-> 0, totalSpent |-> 0,
     executionCount |-> 0, frequency |-> "", scheduledTime |-> "",
     dayOfWeek |-> Undefined, enabled |-> FALSE, nextExecuteAt |-> 0,
     lastExecutedAt |-> Undefined]

StrategyOf(store, id) ==
    IF HasStrategy(store, id)
    THEN store[CHOOSE i \in 1..Len(store) : store[i].id = id]
    ELSE NoStrategy

\* C2: for every strategy and every value of its nextExecuteAt, the scheduler
\* dispatches at most one trade per (strategyId, nextExecuteAt) pair within a
\* session, however many check cycles observe the strategy as due.
C2_OneTradePerKey ==
    \A k \in DOMAIN dca.dispatches : dca.dispatches[k] <= 1

\* a pair that several check cycles observed as due and that was dispatched once
C2_Witness ==
    \E k \in DOMAIN dca.due :
        /\ dca.due[k] = "again"
        /\ k \in DOMAIN dca.dispatches
        /\ dca.dispatches[k] = 1

\* C7: a strategy whose totalBudget is k times its quoteAmount is disabled by
\* the scheduler at its k-th successful execution and at no other moment, and
\* totalSpent equals totalBudget at that point, whatever the interleaving of
\* successful and failed executions.
C7_BudgetClosure ==
    [][\A id \in StrategyIds :
        LET s == StrategyOf(strategies', id)
            k == s.totalBudget \div s.quoteAmount
        IN  HasStrategy(strategies', id) /\ s.totalBudget = k * s.quoteAmount
            => /\ (~dca.closed[id] /\ dca'.closed[id])
                    => /\ dca'.succ[id] = k
                       /\ s.totalSpent = s.totalBudget
                       /\ ~s.enabled
               /\ (dca.succ[id] < k /\ dca'.succ[id] = k) => dca'.closed[id]
      ]_vars

\* C8: in every reachable state, every stored strategy (all of them created
\* through the form, 0 < quoteAmount <= totalBudget) has
\* totalSpent <= totalBudget.
C8_SpentWithinBudget ==
    \A i \in 1..Len(strategies) :
        strategies[i].totalSpent <= strategies[i].totalBudget

(***************************************************************************)
(* Claims on computeNextExecution                                          *)
(***************************************************************************)
\* C9: for every frequency (hourly start or end, daily, weekly), scheduledTime,
\* dayOfWeek and instant, computeNextExecution returns an instant strictly
\* later than the one it was computed from, at creation and after each
\* execution, and a later computation never returns an earlier instant.
C9_NextStrictlyLater ==
    cne.result # Undefined
    => /\ cne.result > cne.from
       /\ cne.prev # Undefined => cne.result >= cne.prev

(***************************************************************************)
(* Claims on the trade dispatcher                                          *)
(***************************************************************************)
\* call slot c is entered by the step
CallStep(c) == calls'[c].n = calls[c].n + 1

\* the call of the step touched neither the exchange nor the order history
NoTrace == requests' = requests /\ orderHistory' = orderHistory

\* C10 as stated: a call of executeAlertTrade or executeDCATrade while no API
\* keys are stored returns {success:false, error:"No API keys configured"},
\* does not throw, sends no request and adds nothing to the order history.
C10_Original ==
    [][\A c \in CallIds :
        CallStep(c) /\ storedKeys = NoKeys
        => calls'[c].result = NoKeysFailure /\ NoTrace
      ]_vars

\* C10 amended: while no API keys are stored, executeDCATrade, and
\* executeAlertTrade for an alert with a trade configured, return
\* {success:false, error:"No API keys configured"}; executeAlertTrade for an
\* alert without a trade returns null; none of them throws, sends a request
\* or adds to the order history.
C10_NoKeysDispatch ==
    [][\A c \in CallIds :
        CallStep(c) /\ storedKeys = NoKeys
        => /\ NoTrace
           /\ calls'[c].pc = "idle"
           /\ IF calls'[c].fn = "executeAlertTrade" /\ ~calls'[c].trade_enabled
              THEN calls'[c].result = NullResult
              ELSE calls'[c].result = NoKeysFailure
      ]_vars

\* both dispatchers refused for missing keys, after an order had been placed
C10_Witness ==
    /\ storedKeys = NoKeys
    /\ Len(orderHistory) > 0
    /\ \E c, d \in CallIds :
          /\ calls[c].fn = "executeAlertTrade" /\ calls[c].trade_enabled
          /\ calls[c].result = NoKeysFailure
          /\ calls[d].fn = "executeDCATrade"
          /\ calls[d].result = NoKeysFailure

\* call slot c returns to its caller in the step
Returns(c) == calls'[c] # calls[c] /\ calls'[c].pc = "idle"

\* C11: the order history gains exactly one entry, at its head, for each
\* dispatch that succeeds, carrying the order and a back-reference to the
\* originating alert id (or 'dca-' + strategy id), and the dispatcher then
\* returns success=true with that order; a dispatch that fails leaves the
\* history unchanged and returns success=false with an error message; nothing
\* else changes the history.
C11_HistoryPerDispatch ==
    [][/\ \A c \in CallIds :
            Returns(c) =>
              LET r == calls'[c].result
                  ref == IF calls'[c].fn = "executeAlertTrade"
                         THEN <<"", calls'[c].id>>
                         ELSE <<"dca-", calls'[c].id>>
              IN  IF r.success
                  THEN /\ Len(orderHistory') = Len(orderHistory) + 1
                       /\ Tail(orderHistory') = orderHistory
                       /\ Head(orderHistory').alertId = ref
                       /\ Head(orderHistory').orderId = r.order.orderId
                       /\ r.order # NoOrder
                  ELSE /\ orderHistory' = orderHistory
                       /\ r.order = NoOrder
                       /\ r.kind = "result" => r.error # ""
       /\ (\A c \in CallIds : ~Returns(c)) => orderHistory' = orderHistory
      ]_vars

\* an alert order and a DCA order are in the history, the DCA one newest, and
\* a later dispatch failed at the exchange
C11_Witness ==
    /\ Len(orderHistory) = 2
    /\ orderHistory[1].alertId[1] = "dca-"
    /\ orderHistory[2].alertId[1] = ""
    /\ \E c \in CallIds : calls[c].result = Failure("Binance POST")

(***************************************************************************)
(* Claims on fetchJsonWithRetry                                            *)
(***************************************************************************)
\* the fetch of the current attempt settles in the step
Settles == rt.pc = "fetch" /\ rt'.pc # "fetch"

\* C12: a response with status 429 is retryable: after it, a further attempt
\* follows whenever fewer than maxAttempts attempts have been made.
C12_RetryOn429 ==
    [][(Settles /\ rt'.resp.status = 429 /\ rt.attempt < rt.maxAttempts)
        => rt'.pc = "wait"
      ]_vars

\* C13: a non-2xx response whose status is neither 429 nor 5xx is not retried:
\* the per-attempt error carrying that status is thrown at once, and no request
\* and no backoff wait follows, whatever maxAttempts is.
C13_NoRetryOnClientError ==
    [][/\ (/\ Settles
           /\ rt'.resp.name = "response"
           /\ rt'.resp.status >= 300
           /\ rt'.resp.status # 429
           /\ ~(rt'.resp.status >= 500 /\ rt'.resp.status < 600))
          => /\ rt'.pc = "thrown"
             /\ rt'.thrown.code = "HTTP_ERROR"
             /\ rt'.thrown.status = rt'.resp.status
             /\ rt'.thrown.attempt = rt.attempt
             /\ rt'.requests = rt.requests /\ rt'.waits = rt.waits
       /\ rt.pc = "thrown" => rt' = rt
      ]_vars

\* a 404 on the second of three attempts, thrown with its status
C13_Witness ==
    /\ rt.pc = "thrown"
    /\ rt.maxAttempts = 3
    /\ rt.requests = 2
    /\ rt.resp.status = 404
    /\ rt.thrown.status = 404

\* a failure that the loop is to retry: 5xx, timeout or connection error
Transient(resp) ==
    \/ resp.name \in {"AbortError", "TypeError"}
    \/ resp.name = "response" /\ resp.status >= 500 /\ resp.status < 600

\* C14: fetchJsonWithRetry ends after at most maxAttempts requests; a transient
\* failure (5xx, timeout, connection error) before the last attempt is followed
\* by one backoff wait and the next request, so there is one wait between
\* consecutive requests and none after the last; a transient failure of the
\* last attempt throws the summary error RETRY_EXHAUSTED, distinct from the
\* per-attempt error and built from that last cause, after exactly maxAttempts
\* requests; a 2xx with a JSON body returns and ends the loop.
C14_BoundedAttempts ==
    /\ rt.requests <= rt.maxAttempts
    /\ rt.pc \in {"fetch", "returned", "thrown"} /\ rt.requests > 0
         => rt.waits = rt.requests - 1
    /\ rt.pc = "wait" => rt.waits = rt.requests - 1 /\ rt.requests < rt.maxAttempts
    /\ rt.pc \in {"wait", "returned", "thrown"} /\ rt.requests > 0
         => /\ (Transient(rt.resp) /\ rt.requests < rt.maxAttempts)
                 <=> rt.pc = "wait"
            /\ (Transient(rt.resp) /\ rt.requests = rt.maxAttempts)
                 <=> (rt.pc = "thrown" /\ rt.thrown.code = "RETRY_EXHAUSTED")
            /\ (rt.resp.name = "response" /\ rt.resp.status >= 200
                  /\ rt.resp.status < 300 /\ rt.resp.json)
                 <=> rt.pc = "returned"
    /\ rt.pc = "thrown" /\ rt.thrown.code = "RETRY_EXHAUSTED" /\ rt.requests > 0
         => /\ rt.thrown # rt.lastError
            /\ rt.thrown.cause = rt.lastError.code
            /\ rt.lastError.attempt = rt.maxAttempts
            /\ rt.requests = rt.maxAttempts

\* three transient failures in a row: two waits, then the summary error
C14_Witness ==
    /\ rt.maxAttempts = 3
    /\ rt.pc = "thrown"
    /\ rt.thrown.code = "RETRY_EXHAUSTED"
    /\ rt.thrown.cause = "ABORT_TIMEOUT"
    /\ rt.requests = 3
    /\ rt.waits = 2

(***************************************************************************)
(* Claims on the alert store                                               *)
(***************************************************************************)
\* C15: an alert's status only ever moves active -> triggered, in an evaluation
\* of that alert by the engine, or active -> cancelled; once the status is not
\* active no step, whatever the price updates, changes any persisted field of
\* the alert (status, targetPrice, trailingHigh and the rest).
C15_StatusMonotone ==
    [][\A id \in AlertIds :
        LET a == AlertOf(alerts, id)
            b == AlertOf(alerts', id)
        IN  HasAlert(alerts, id) /\ HasAlert(alerts', id)
            => /\ a.status # b.status
                    => /\ a.status = "active"
                       /\ b.status \in {"triggered", "cancelled"}
                       /\ b.status = "triggered" => EvalStep(id)
               /\ a.status # "active" => b = a
      ]_vars

\* a triggered rising trail, with a pass after the trigger at a price above
\* its watermark, next to an alert that is still active
C15_Witness ==
    \E id, other \in AlertIds :
        LET a == AlertOf(alerts, id)
        IN  /\ HasAlert(alerts, id) /\ HasAlert(alerts, other)
            /\ a.alert_type = "trailing_stop" /\ a.direction = "above"
            /\ Truthy(a.trailing_percent)
            /\ a.status = "triggered"
            /\ priceData[a.symbol] > a.trailing_high
            /\ AlertOf(alerts, other).status = "active"

\* the step is an update call for an id that is not in the store
MissingWrite == lastWrite' # lastWrite /\ lastWrite'.missing

\* C16: updateAlert and updateDCAStrategy called with an id that is no longer
\* in the store are silent no-ops: the stored records, their order and every
\* field of every record stay as they are, and the deleted record is not
\* recreated.
C16_UpdateOfMissingId ==
    [][MissingWrite => alerts' = alerts /\ strategies' = strategies]_vars

\* a write for a deleted alert while another alert and a strategy are stored
C16_Witness ==
    /\ lastWrite.missing
    /\ lastWrite.store = "alerts"
    /\ ~HasAlert(alerts, lastWrite.id)
    /\ Len(alerts) = 1
    /\ Len(strategies) = 1
    /\ nextStrategyId = 2

\* C17: after any sequence of addOrderToHistory calls the stored history holds
\* at most MAX_ORDERS entries, and they are exactly the most recently added
\* orders, the newest first; older orders have been evicted.
C17_HistoryBounded ==
    /\ Len(orderHistory) = Min(added, MAX_ORDERS)
    /\ \A i \in 1..Len(orderHistory) :
          orderHistory[i].orderId = <<0, added - i + 1>>

\* more orders were added than the history keeps
C17_Witness ==
    /\ added = MAX_ORDERS + 2
    /\ Len(orderHistory) = MAX_ORDERS
    /\ orderHistory[MAX_ORDERS].orderId = <<0, 3>>

\* the strategy is stored, enabled and its nextExecuteAt has been reached
Due(id) ==
    /\ HasStrategy(strategies, id)
    /\ StrategyOf(strategies, id).enabled
    /\ StrategyOf(strategies, id).nextExecuteAt <= now

\* C18: while check cycles keep firing and every trade call returns, an
\* enabled strategy whose nextExecuteAt has been reached is executed by a later
\* check cycle, after which its stored nextExecuteAt is later than now: no
\* strategy stays due forever.
C18_DueIsExecuted ==
    \A id \in StrategyIds : Due(id) ~> ~Due(id)

\* the awaited trade call of strategy id returns in this step
Resumed(id) ==
    /\ cycle # NoCycle
    /\ cycle' # cycle
    /\ cycle.list[cycle.i].id = id

\* a trade of strategy id was dispatched in this step
Dispatched(id) ==
    \E key \in DOMAIN dca'.dispatches :
        /\ key[1] = id
        /\ key \notin DOMAIN dca.dispatches
              \/ dca'.dispatches[key] # dca.dispatches[key]

\* the trade call of strategy id is awaited after this step
Awaited(id) == cycle' # NoCycle /\ cycle'.list[cycle'.i].id = id

\* executeStrategy ran to its end for strategy id in this step
Executed(id) == Resumed(id) \/ (Dispatched(id) /\ ~Awaited(id))

\* C19: after every executed strategy, whether the trade succeeded or failed
\* (missing credentials included), the scheduler has added quoteAmount to
\* totalSpent, incremented executionCount, set lastExecutedAt, recomputed
\* nextExecuteAt from the current time and forced enabled = false when the new
\* totalSpent reaches totalBudget.
C19_AlwaysAdvances ==
    [][\A id \in StrategyIds :
        LET a == StrategyOf(strategies, id)
            b == StrategyOf(strategies', id)
        IN  Executed(id) /\ HasStrategy(strategies, id)
            => /\ HasStrategy(strategies', id)
               /\ b.totalSpent = a.totalSpent + a.quoteAmount
               /\ b.executionCount = a.executionCount + 1
               /\ b.lastExecutedAt = now
               /\ b.nextExecuteAt =
                     computeNextExecution(a.frequency, a.scheduledTime,
                                          a.dayOfWeek, now)
               /\ b.totalSpent >= b.totalBudget => ~b.enabled
      ]_vars

\* a strategy counted an execution that failed for missing credentials, and
\* another one was closed by an execution that the exchange refused
C19_Witness ==
    \E id, other \in StrategyIds :
        /\ HasStrategy(strategies, id) /\ HasStrategy(strategies, other)
        /\ StrategyOf(strategies, id).executionCount = 1
        /\ StrategyOf(strategies, id).totalSpent = 50
        /\ StrategyOf(strategies, id).enabled
        /\ dca.succ[id] = 0
        /\ storedKeys = NoKeys
        /\ StrategyOf(strategies, other).totalSpent = 100
        /\ ~StrategyOf(strategies, other).enabled
        /\ dca.succ[other] = 1

\* the ids of the strategies the running cycle has still to visit
Ahead == {cycle.list[j].id : j \in (cycle.i + 1)..Len(cycle.list)}

\* C20: at most one check cycle executes at any time: while a check awaits a
\* trade call the latch is held and nothing but that cycle dispatches a
\* trade, a check that fires meanwhile returns without executing any
\* strategy, and the latch is free again as soon as the running check has
\* finished, normally or with an exception.
C20_SingleFlight ==
    /\ [](/\ dca.running <= 1
          /\ dca.running = 1 <=> executingRef
          /\ executingRef <=> cycle # NoCycle)
    /\ [][\A id \in StrategyIds :
            Dispatched(id) /\ executingRef
            => cycle' # cycle /\ id \in Ahead]_vars

\* a check awaits a trade call while another strategy, created after the
\* cycle took its snapshot, is due and was never executed
C20_Witness ==
    \E id \in StrategyIds :
        /\ cycle # NoCycle
        /\ executingRef
        /\ Due(id)
        /\ \A j \in 1..Len(cycle.list) : cycle.list[j].id # id
        /\ <<id, StrategyOf(strategies, id).nextExecuteAt>> \notin executedKeys

\* the latch was released by an exception (the strategy was dispatched but
\* never written) and a later check is running a cycle
C20_WitnessReleased ==
    \E id \in StrategyIds :
        /\ HasStrategy(strategies, id)
        /\ StrategyOf(strategies, id).executionCount = 0
        /\ <<id, StrategyOf(strategies, id).nextExecuteAt>> \in executedKeys
        /\ cycle # NoCycle
        /\ cycle.list[cycle.i].id # id

(***************************************************************************)
(* Claims on the scheduler and the user's switch                           *)
(***************************************************************************)
\* C21: a strategy that the user has disabled or deleted is not executed by
\* any later scheduler step: every step that dispatches a trade for a strategy
\* finds it stored and enabled, also when the user acted while the cycle was
\* suspended at the trade of a strategy earlier in the same cycle.
C21_NoDispatchAfterDisable ==
    [][\A id \in StrategyIds :
        Dispatched(id)
        => /\ HasStrategy(strategies, id)
           /\ StrategyOf(strategies, id).enabled
      ]_vars

\* C22: once a strategy's totalSpent has reached or exceeded its totalBudget
\* no further trade is dispatched for it, whatever check cycles and user
\* actions follow, toggling its enabled switch included.
C22_NoDispatchPastBudget ==
    [][\A id \in StrategyIds :
        Dispatched(id) /\ HasStrategy(strategies, id)
        => StrategyOf(strategies, id).totalSpent
              < StrategyOf(strategies, id).totalBudget
      ]_vars

(***************************************************************************)
(* Claims on the dispatcher's requests                                     *)
(***************************************************************************)
\* the request of syncTime of call c settles in the step
SyncSettles(c) == calls[c].pc = "syncTime" /\ calls'[c].pc # "syncTime"

\* C23: in every dispatch with stored credentials syncTime completes before
\* the order request is sent: the order request is sent only by the step in
\* which syncTime settles, with the exchange's time read; when syncTime did
\* not obtain the time no order request is sent and the dispatcher returns
\* success=false with an error message.
C23_SyncBeforeOrder ==
    [][\A c \in CallIds :
        /\ calls'[c].pc = "order" /\ calls[c].pc # "order"
              => SyncSettles(c) /\ calls'[c].timeOffset = "number"
        /\ SyncSettles(c) /\ calls'[c].timeOffset # "number"
              => /\ requests' = requests
                 /\ calls'[c].pc = "idle"
                 /\ calls'[c].result.kind = "result"
                 /\ ~calls'[c].result.success
                 /\ calls'[c].result.error # ""
      ]_vars

\* the order request of call c is sent in the step
OrderSent(c) == calls[c].pc # "order" /\ calls'[c].pc = "order"

\* the order request of call c settles in the step
OrderSettled(c) == calls[c].pc = "order" /\ calls'[c] # calls[c]

\* C24: a single dispatch sends at most one order-placement request: the step
\* that sends it sends one request, and when the request settles the
\* dispatcher returns without another request: success with the order, or
\* success=false with the message of the error, unchanged.
C24_OneOrderRequest ==
    [][/\ requests' # requests
            => \E c \in CallIds :
                  /\ requests' = requests + 1
                  /\ OrderSent(c) \/ (CallStep(c) /\ calls'[c].pc = "syncTime")
       /\ \A c \in CallIds :
        /\ OrderSent(c) => requests' = requests + 1
        /\ OrderSettled(c)
              => /\ requests' = requests
                 /\ calls'[c].pc = "idle"
                 /\ calls'[c].result.kind = "result"
                 /\ ~calls'[c].result.success
                       => calls'[c].result.error \in OrderErrors
      ]_vars

\* one dispatch only: a time request, an order request, and the refusal of
\* the exchange returned
C24_Witness ==
    \E c \in CallIds :
        /\ calls[c].n = 1
        /\ calls[c].pc = "idle"
        /\ calls[c].result = Failure("Binance POST")
        /\ requests = 2
        /\ \A d \in CallIds \ {c} : calls[d].n = 0

(***************************************************************************)
(* Claims on the trade of a triggered alert                                *)
(***************************************************************************)
\* the trade dispatched for alert id settles in the step
AlertTradeSettled(id) == id \in inflight /\ id \notin inflight'

\* C25: when the trade dispatched for a triggered alert settles, failed or
\* not, nothing of the alerts or of the trigger guard changes: the status
\* stays triggered; an alert whose trade was dispatched stays triggered and
\* guarded and is dispatched once only; and a pass that runs while a trade is
\* in flight, or that dispatches one, still triggers every other alert it
\* evaluates whose condition holds.
C25_TradeFailureKeepsTrigger ==
    /\ [](\A id \in AlertIds :
            fx[id].trade >= 1
            => /\ fx[id].trade = 1
               /\ id \in triggeredIds
               /\ HasAlert(alerts, id)
                     => AlertOf(alerts, id).status = "triggered")
    /\ [][\A id \in AlertIds :
            LET a == AlertOf(alerts, id)
            IN  /\ AlertTradeSettled(id)
                      => alerts' = alerts /\ triggeredIds' = triggeredIds
                /\ (/\ EvalStep(id)
                    /\ inflight # {} \/ inflight' # inflight
                    /\ a.alert_type = "price_cross"
                    /\ CrossHolds(a, priceData'[a.symbol]))
                      => AlertOf(alerts', id).status = "triggered"
       ]_vars

\* the trade of one alert has settled and a later pass has seen its condition
\* hold again, while the trade of another alert, triggered meanwhile, is in
\* flight
C25_Witness ==
    \E id, other \in AlertIds :
        /\ fx[id].trade = 1
        /\ id \notin inflight
        /\ obs[id].again
        /\ HasAlert(alerts, id)
        /\ AlertOf(alerts, id).status = "triggered"
        /\ other \in inflight
        /\ fx[other].persist = 1

(***************************************************************************)
(* Claims on useTrading                                                    *)
(***************************************************************************)
\* C26: through useTrading every signed request is issued by a client on
\* which syncTime has already completed, for every interleaving of signed
\* operations, testConnection and refreshConnection.
C26_SignedAfterSync ==
    \A o \in OpIds :
        tr.ops[o].pc = "request" => tr.ops[o].client \in tr.synced

(***************************************************************************)
(* Claims on the direction of the trailing stop                            *)
(***************************************************************************)
\* C27: a trailing stop only tightens: across every evaluation of an active
\* trailing_stop alert the persisted targetPrice and watermark do not decrease
\* for direction above and do not increase for direction below, for every
\* alert the creation form can produce (automatic or manually entered initial
\* trigger price) and every price sequence.
C27_TrailingOnlyTightens ==
    [][\A id \in AlertIds :
        LET a == AlertOf(alerts, id)
            b == AlertOf(alerts', id)
        IN  (/\ HasAlert(alerts, id) /\ HasAlert(alerts', id)
             /\ a.alert_type = "trailing_stop"
             /\ a.status = "active")
            => IF a.direction = "above"
               THEN /\ b.target_price >= a.target_price
                    /\ a.trailing_high # Undefined
                          => b.trailing_high >= a.trailing_high
               ELSE /\ b.target_price <= a.target_price
                    /\ a.trailing_high # Undefined
                          => b.trailing_high <= a.trailing_high
      ]_vars

(***************************************************************************)
(* Claims on the persistent alarm                                          *)
(***************************************************************************)
\* C28: silence stops the persistent alarm: once it has returned no repeat
\* timer is scheduled, so no pattern is played again until another alert
\* triggers, and the active-alarm flag is cleared; it changes no alert; and
\* since starting a persistent alarm first cancels the running one, at most
\* one repeat timer exists at any time.
C28_SilenceStopsAlarm ==
    /\ [](/\ Cardinality(alarm.timers) <= 1
          /\ alarm.timers \subseteq {alarm.loopInterval}
          /\ alarm.silenced
                => /\ alarm.timers = {}
                   /\ alarm.loopInterval = NoTimer
                   /\ alarm.activeAlarm = 0)
    /\ [][/\ alarm'.silenced /\ ~alarm.silenced
                => alerts' = alerts /\ triggeredIds' = triggeredIds
          /\ alarm'.lastPlay = "interval" /\ alarm.lastPlay # "interval"
                => ~alarm.silenced /\ alarm.timers # {}
       ]_vars

\* two persistent alarms were started, the second while the first was
\* repeating, and the alarm was silenced
C28_Witness ==
    /\ alarm.silenced
    /\ alarm.made = 2
    /\ alarm.lastPlay = "interval"
    /\ \A id \in AlertIds :
          HasAlert(alerts, id) /\ AlertOf(alerts, id).status = "triggered"

C30_BackoffDoublesWithinJitter ==
    [][(rt'.pc = "wait" /\ rt.pc # "wait")
          => /\ rt'.unjittered = IF rt.waits = 0 THEN rt.baseDelay
                                 ELSE 2 * rt.unjittered
             /\ rt'.unjittered * (100 - rt.jitterPercent) <= rt'.delay * 100
             /\ rt'.delay * 100 <= rt'.unjittered * (100 + rt.jitterPercent)
      ]_vars

\* the wait after the second attempt, at the lower end of its range
C30_Witness ==
    /\ rt.pc = "wait"
    /\ rt.attempt = 2
    /\ rt.waits = 1
    /\ rt.baseDelay = 300 /\ rt.jitterPercent = 30
    /\ rt.unjittered = 600
    /\ rt.delay = 420

====
